---- MODULE Spec2Model ----
(***************************************************************************)
(* A model of the phinex blog API: the relational tables it keeps, the     *)
(* blog and user services that mutate them, the role guards that stand in  *)
(* front of the handlers, and the paginated list operations.               *)
(*                                                                         *)
(* Every service method is one action: the code wraps the blog operations  *)
(* in a database transaction, and the requests of this development are run *)
(* one after the other.  Identifiers produced by utils.GenerateID are       *)
(* random 25-character strings; they are modelled as <<kind, n>> pairs, so *)
(* that two generated identifiers are never equal and a client may still   *)
(* send any identifier to any route.                                       *)
(***************************************************************************)
EXTENDS Integers, Sequences, FiniteSets, TLC

\* ------------------------------------------------------------------ bounds
MaxUsers == 2
MaxBlogs == 2
MaxComments == 1
MaxReplies == 1
MaxViews == 2
MaxUserRoles == 2
MaxPage == 2
MaxNow == 5
MaxLimit == 2

\* ------------------------------------------------------- program constants
StatusOK == 200
StatusCreated == 201
StatusAccepted == 202
StatusNonAuthoritativeInformation == 203
StatusUnauthorized == 401
StatusForbidden == 403
StatusNotFound == 404
StatusInternalServerError == 500
DefaultUsersLimit == 20
DefaultQueryLimit == 10

\* ------------------------------------------------------------- identifiers
EmptyId == <<"", 0>>
UserIds == {<<"user", n>> : n \in 1..MaxUsers}
BlogIds == {<<"blog", n>> : n \in 1..MaxBlogs}
CommentIds == {<<"comment", n>> : n \in 1..(MaxComments + MaxReplies)}

RoleNameAuthenticated == "Authenticated"
RoleNameAnonymous == "Anonymous"
RoleNameBusinessOwner == "BusinessOwner"
RoleNameSuperAdmin == "SuperAdmin"
RoleNamePaymentAgent == "PaymentAgent"
RoleNameAdmin == "Admin"
RoleName ==
    {RoleNameAuthenticated, RoleNameAnonymous, RoleNameBusinessOwner,
     RoleNameSuperAdmin, RoleNamePaymentAgent, RoleNameAdmin}

VARIABLES
    users,        \* rows of table users (their user_id)
    userRoles,    \* user_id -> role names joined through user_roles/roles
    usersStats,   \* rows of users_stats, keyed by user_id
    follows,      \* rows of follows
    blogs,        \* rows of blogs, keyed by blog_id
    comments,     \* rows of comments, keyed by comment_id
    likes,        \* rows of likes
    shares,       \* rows of shares
    views,        \* rows of views
    pinnedBlogs,  \* rows of pinned_blogs
    issued,       \* how many blog / comment / user ids GenerateID has produced
    now,          \* the clock read by time.Now()
    last,         \* the request that completed last, with its response
    prev,         \* the request before it, kept while it is the same call
    wallets,      \* rows of wallets, keyed by user_id (user_id is UNIQUE)
    transactions, \* rows of transactions
    subscriptions,\* rows of subscriptions, keyed by user_id
    businesses,   \* the user_id of every row of business
    pending       \* requests being served: what each has read, where it is

vars ==
    <<users, userRoles, usersStats, follows, blogs, comments, likes, shares,
      views, pinnedBlogs, issued, now, last, prev, pending, wallets,
      transactions, subscriptions, businesses>>

\* the tables only the subscription service writes
ledgerVars == <<wallets, transactions, subscriptions, businesses>>

dbVars ==
    <<users, userRoles, usersStats, follows, blogs, comments, likes, shares,
      views, pinnedBlogs, issued, ledgerVars>>

\* ------------------------------------------------------ bearer tokens, JWT
\* An Authorization header is a sequence of atoms: a word, a single space, or
\* a JWT.  Adjacent atoms with no space between them are one string.
Word(w) == [k |-> "word", w |-> w, signed |-> FALSE, expired |-> FALSE,
            uidIsString |-> FALSE, uid |-> EmptyId]
Sp == [k |-> "sp", w |-> " ", signed |-> FALSE, expired |-> FALSE,
       uidIsString |-> FALSE, uid |-> EmptyId]
Tok(signed, expired, uidIsString, uid) ==
    [k |-> "tok", w |-> "", signed |-> signed, expired |-> expired,
     uidIsString |-> uidIsString, uid |-> uid]

\* the token utils.JwtEncode issues for user u: HS256 with the application
\* secret, no expiry claim, userId a string
JwtEncode(u) == Tok(TRUE, FALSE, TRUE, u)

Tokens ==
    {Tok(s, e, i, u) : s \in BOOLEAN, e \in BOOLEAN, i \in BOOLEAN,
                       u \in UserIds \cup {EmptyId}}

\* strings.Split(authorization, " ")
RECURSIVE Split(_)
Split(h) ==
    IF h = <<>> THEN << <<>> >>
    ELSE LET rest == Split(Tail(h)) IN
         IF Head(h).k = "sp" THEN << <<>> >> \o rest
         ELSE << <<Head(h)>> \o rest[1] >> \o Tail(rest)

\* utils.JwtDecode: jwt.Parse rejects anything that is not one well-formed
\* token, a signature that does not verify under the secret, and a token past
\* its exp claim; otherwise the claims are returned.
JwtDecode(tokenStr) ==
    IF /\ Len(tokenStr) = 1
       /\ tokenStr[1].k = "tok"
       /\ tokenStr[1].signed
       /\ ~tokenStr[1].expired
    THEN [err |-> FALSE, userIdIsString |-> tokenStr[1].uidIsString,
          userId |-> tokenStr[1].uid]
    ELSE [err |-> TRUE, userIdIsString |-> FALSE, userId |-> EmptyId]

\* ------------------------------------------------------------------ guards
NoUser == [UserId |-> EmptyId, Roles |-> {}, IsAuthenticated |-> FALSE,
           set |-> FALSE]
CurrentUser(u, roles, auth) ==
    [UserId |-> u, Roles |-> roles, IsAuthenticated |-> auth, set |-> TRUE]

\* what a guard does with a request: answer it with a status, or call c.Next()
\* after (possibly) storing the current user in c.Locals("user")
Reject(code) == [next |-> FALSE, status |-> code, user |-> NoUser]
Proceed(user) == [next |-> TRUE, status |-> StatusOK, user |-> user]

RolesEverGranted(u) == RoleName
\* db.Preload("UserRoles.Role"): the role names joined to a user row
RolesOf(u) == IF u \in DOMAIN userRoles THEN userRoles[u] ELSE {}

\* The part every role guard starts with: header, "Bearer <token>" format,
\* JwtDecode, userId claim, user row with its roles.
BadTokenFormat(authorization) ==
    LET parts == Split(authorization) IN
    Len(parts) # 2 \/ parts[1] # <<Word("Bearer")>>

ResolveAlways(authorization) ==
    IF authorization = <<>> THEN Reject(StatusUnauthorized)
    ELSE IF BadTokenFormat(authorization) THEN Reject(StatusUnauthorized)
    ELSE LET decodedData == JwtDecode(Split(authorization)[2]) IN
         IF decodedData.err THEN Reject(StatusUnauthorized)
         ELSE IF ~decodedData.userIdIsString THEN Reject(StatusUnauthorized)
         ELSE Proceed(CurrentUser(decodedData.userId,
                                  RolesOf(decodedData.userId), FALSE))
Resolve(authorization) ==
    IF authorization = <<>> THEN Reject(StatusUnauthorized)
    ELSE IF BadTokenFormat(authorization) THEN Reject(StatusUnauthorized)
    ELSE LET decodedData == JwtDecode(Split(authorization)[2]) IN
         IF decodedData.err THEN Reject(StatusUnauthorized)
         ELSE IF ~decodedData.userIdIsString THEN Reject(StatusUnauthorized)
         ELSE IF decodedData.userId \notin users
              THEN Reject(StatusUnauthorized)
         ELSE Proceed(CurrentUser(decodedData.userId,
                                  RolesOf(decodedData.userId), FALSE))

AdminGuardLax(authorization) ==
    LET r == Resolve(authorization) IN
    IF ~r.next THEN r
    ELSE Proceed([r.user EXCEPT !.IsAuthenticated = TRUE])
AdminGuard(authorization) ==
    LET r == Resolve(authorization)
        isAdminOrHigher ==
            r.user.Roles \cap {RoleNameAdmin, RoleNameSuperAdmin} # {}
    IN  IF ~r.next THEN r
        ELSE IF ~isAdminOrHigher THEN Reject(StatusForbidden)
        ELSE Proceed([r.user EXCEPT !.IsAuthenticated = TRUE])

SuperAdminGuardOrOwner(authorization) ==
    LET r == Resolve(authorization)
        isSuperAdmin ==
            r.user.Roles \cap {RoleNameSuperAdmin, RoleNameBusinessOwner} # {}
    IN  IF ~r.next THEN r
        ELSE IF ~isSuperAdmin THEN Reject(StatusForbidden)
        ELSE Proceed([r.user EXCEPT !.IsAuthenticated = TRUE])
SuperAdminGuard(authorization) ==
    LET r == Resolve(authorization)
        isSuperAdmin == RoleNameSuperAdmin \in r.user.Roles
    IN  IF ~r.next THEN r
        ELSE IF ~isSuperAdmin THEN Reject(StatusForbidden)
        ELSE Proceed([r.user EXCEPT !.IsAuthenticated = TRUE])

BusinessOwnerGuard(authorization) ==
    LET r == Resolve(authorization)
        isBusinessOwnerOrHigher ==
            r.user.Roles \cap {RoleNameBusinessOwner, RoleNameAdmin,
                               RoleNameSuperAdmin} # {}
    IN  IF ~r.next THEN r
        ELSE IF ~isBusinessOwnerOrHigher THEN Reject(StatusForbidden)
        ELSE Proceed([r.user EXCEPT !.IsAuthenticated = TRUE])

PaymentAgentGuard(authorization) ==
    LET r == Resolve(authorization)
        isPaymentAgentOrHigher ==
            r.user.Roles \cap {RoleNamePaymentAgent, RoleNameAdmin,
                               RoleNameSuperAdmin} # {}
    IN  IF ~r.next THEN r
        ELSE IF ~isPaymentAgentOrHigher THEN Reject(StatusForbidden)
        ELSE Proceed([r.user EXCEPT !.IsAuthenticated = TRUE])

\* The 403 answer for a user without a valid role is commented out in the
\* source (auth.go 352-356): the guard only records the flag.
AuthenticatedGuard(authorization) ==
    LET r == Resolve(authorization)
        validRoles == {RoleNameAdmin, RoleNameSuperAdmin,
                       RoleNameBusinessOwner, RoleNamePaymentAgent,
                       RoleNameAuthenticated}
        isAuthenticated == r.user.Roles \cap validRoles # {}
    IN  IF ~r.next THEN r
        ELSE Proceed([r.user EXCEPT !.IsAuthenticated = isAuthenticated])

\* skipped is contains(url, {"metrics", "bloggers", "sse", "webhook",
\* "swagger-docs"}): such a request goes on with no current user stored.
AnonymousGuard(authorization, skipped) ==
    IF skipped THEN Proceed(NoUser)
    ELSE IF authorization = <<>>
    THEN Proceed(CurrentUser(EmptyId, {RoleNameAnonymous}, FALSE))
    ELSE LET r == Resolve(authorization)
             validRoles == {RoleNameAdmin, RoleNameSuperAdmin,
                            RoleNameBusinessOwner, RoleNamePaymentAgent,
                            RoleNameAuthenticated, RoleNameAnonymous}
             isValidRole == r.user.Roles \cap validRoles # {}
         IN  IF ~r.next THEN r
             ELSE IF ~isValidRole THEN Reject(StatusForbidden)
             ELSE Proceed([r.user EXCEPT !.IsAuthenticated = FALSE])

GuardNames ==
    <<"Anonymous", "Authenticated", "BusinessOwner", "PaymentAgent", "Admin",
      "SuperAdmin">>

Guard(name, authorization) ==
    CASE name = "Anonymous" -> AnonymousGuard(authorization, FALSE)
      [] name = "Authenticated" -> AuthenticatedGuard(authorization)
      [] name = "BusinessOwner" -> BusinessOwnerGuard(authorization)
      [] name = "PaymentAgent" -> PaymentAgentGuard(authorization)
      [] name = "Admin" -> AdminGuard(authorization)
      [] name = "SuperAdmin" -> SuperAdminGuard(authorization)

\* the header a client sends along with token t
Bearer(t) == <<Word("Bearer"), Sp, t>>

\* ---------------------------------------------------------------- database
NoCall == [op |-> "none"]

ZeroStats ==
    [followers_count |-> 0, followings_count |-> 0, total_posts |-> 0,
     total_likes |-> 0]

\* a function without the rows whose key is in gone
Without(f, gone) == [k \in DOMAIN f \ gone |-> f[k]]
\* a function with one more row
With(f, key, row) == [k \in DOMAIN f \cup {key} |-> IF k = key THEN row ELSE f[k]]

\* the primary key of a new row of a table whose rows nothing refers to
NewRowId(rows) == CHOOSE n \in 1..(Cardinality(rows) + 1) :
                      \A r \in rows : r.id # n

\* The database as the deployment seeds it: an account holding the
\* Authenticated role (the test suites seed the same), its stats row, and no
\* content.
SeedUser == <<"user", 1>>
InitDb ==
    /\ users = {SeedUser}
    /\ userRoles = [u \in {SeedUser} |-> {RoleNameAuthenticated}]
    /\ usersStats = [u \in {SeedUser} |-> ZeroStats]
    /\ follows = {}
    /\ blogs = <<>>
    /\ comments = <<>>
    /\ likes = {}
    /\ shares = {}
    /\ views = {}
    /\ pinnedBlogs = {}
    /\ issued = [user |-> 1, blog |-> 0, comment |-> 0]
    /\ now = 0
    /\ last = NoCall
    /\ prev = NoCall
    /\ pending = {}
    /\ wallets = <<>>
    /\ transactions = {}
    /\ subscriptions = <<>>
    /\ businesses = {}

\* prev keeps the call before last only while last repeats it (same operation,
\* same caller, same target): the two-call properties are about such pairs.
SameCall(a, b) ==
    /\ a.op = b.op
    /\ a.op \in {"LikeBlog", "FollowUnfollowUser"}
    /\ a.actor = b.actor
    /\ a.ref = b.ref
\* Every service call takes one tick of the clock; the runs considered are
\* MaxNow ticks long.
Respond(call) ==
    /\ now < MaxNow
    /\ now' = now + 1
    /\ last' = call
    /\ prev' = IF /\ last.op # "none"
                  /\ last.status < 400
                  /\ \/ SameCall(last, call)
                     \/ /\ last.op = "FollowUnfollowUser"
                        /\ call.op = "FindUserFollowers"
               THEN last ELSE NoCall

\* a call served in one step: no other request runs between its statements
Record(call) ==
    /\ Respond(call)
    /\ UNCHANGED pending

\* ----------------------------------------------------- user administration
\* UsersService.CreateUser followed by createUserStats; the new account has no
\* row in user_roles.
CreateUser(currentUser) ==
    /\ issued.user < MaxUsers
    /\ LET userId == <<"user", issued.user + 1>> IN
       /\ issued' = [issued EXCEPT !.user = @ + 1]
       /\ users' = users \cup {userId}
       /\ userRoles' = With(userRoles, userId, {})
       /\ usersStats' = With(usersStats, userId, ZeroStats)
       /\ Record([op |-> "CreateUser", caller |-> currentUser.UserId,
                  ref |-> userId, status |-> StatusCreated])
    /\ UNCHANGED <<follows, blogs, comments, likes, shares, views,
                   pinnedBlogs>>
    /\ UNCHANGED ledgerVars

\* UsersService.DeleteUser.  The row is deleted alone; the schema's foreign
\* keys (ON DELETE CASCADE on every user_id column, on both columns of follows
\* and on pinned_blogs.blog_id) remove the dependent rows.  ref_id columns
\* carry no foreign key.
DeleteUser(userId, currentUser) ==
    /\ IF userId \notin users
       THEN /\ Record([op |-> "DeleteUser", caller |-> currentUser.UserId,
                       ref |-> userId, status |-> StatusNotFound])
            /\ UNCHANGED dbVars
       ELSE LET goneBlogs == {b \in DOMAIN blogs : blogs[b].user_id = userId}
                goneComments ==
                    {c \in DOMAIN comments : comments[c].user_id = userId}
            IN
            /\ users' = users \ {userId}
            /\ userRoles' = Without(userRoles, {userId})
            /\ usersStats' = Without(usersStats, {userId})
            /\ follows' = {f \in follows : f.follower_id # userId
                                           /\ f.following_id # userId}
            /\ blogs' = Without(blogs, goneBlogs)
            /\ comments' = Without(comments, goneComments)
            /\ likes' = {l \in likes : l.user_id # userId}
            /\ shares' = {x \in shares : x.user_id # userId}
            /\ views' = {v \in views : v.user_id # userId}
            /\ pinnedBlogs' = {p \in pinnedBlogs : p.user_id # userId
                                                   /\ p.blog_id \notin goneBlogs}
            /\ issued' = issued
            /\ Record([op |-> "DeleteUser", caller |-> currentUser.UserId,
                       ref |-> userId, status |-> StatusNonAuthoritativeInformation])
    /\ UNCHANGED ledgerVars

\* Rows of user_roles are written outside the services (the test suites insert
\* and delete them directly).
GrantRole(userId, role) ==
    /\ userId \in users
    /\ role \notin userRoles[userId]
    /\ Cardinality({<<u, r>> \in UserIds \X RoleName :
                       u \in users /\ r \in userRoles[u]}) < MaxUserRoles
    /\ userRoles' = [userRoles EXCEPT ![userId] = @ \cup {role}]
    /\ Record([op |-> "GrantRole", caller |-> EmptyId, ref |-> userId,
               status |-> StatusOK])
    /\ UNCHANGED <<users, usersStats, follows, blogs, comments, likes, shares,
                   views, pinnedBlogs, issued>>
    /\ UNCHANGED ledgerVars

RevokeRole(userId, role) ==
    /\ userId \in users
    /\ role \in userRoles[userId]
    /\ userRoles' = [userRoles EXCEPT ![userId] = @ \ {role}]
    /\ Record([op |-> "RevokeRole", caller |-> EmptyId, ref |-> userId,
               status |-> StatusOK, role |-> role])
    /\ UNCHANGED <<users, usersStats, follows, blogs, comments, likes, shares,
                   views, pinnedBlogs, issued>>
    /\ UNCHANGED ledgerVars

\* ------------------------------------------------- requests through a guard
\* the tokens and headers clients send
ClientTokens ==
    {JwtEncode(u) : u \in UserIds \cup {EmptyId}}
    \cup {Tok(FALSE, FALSE, TRUE, SeedUser), Tok(TRUE, TRUE, TRUE, SeedUser),
          Tok(TRUE, FALSE, FALSE, SeedUser)}
MalformedHeaders ==
    LET t == JwtEncode(SeedUser) IN
    {<<t>>, <<Word("Bearer"), t>>, <<Word("Basic"), Sp, t>>,
     <<Word("Bearer"), Sp, Sp, t>>, <<Word("Bearer"), Sp, t, Sp, t>>,
     <<Word("Bearer"), Sp>>, <<Word("Bearer"), Sp, Word("Bearer")>>}
Headers == {<<>>} \cup MalformedHeaders \cup {Bearer(t) : t \in ClientTokens}

\* A route behind the named guard whose handler answers 200: the handler runs
\* exactly when the guard calls c.Next().
GuardedRequest(name, authorization) ==
    LET r == Guard(name, authorization) IN
    /\ last' = [op |-> "Guard", guard |-> name,
                authorization |-> authorization, next |-> r.next,
                status |-> r.status, user |-> r.user]
    /\ prev' = IF last.op \in {"RevokeRole", "DeleteUser"} THEN last
               ELSE NoCall
    /\ UNCHANGED <<dbVars, now, pending>>

\* the current user of a client that holds the token issued for u, on a route
\* behind AuthenticatedGuard
Callers ==
    {AuthenticatedGuard(Bearer(JwtEncode(u))).user : u \in users}

NextGuard ==
    \/ \E c \in Callers : CreateUser(c)
    \/ \E c \in Callers, u \in UserIds : DeleteUser(u, c)
    \/ \E u \in UserIds, r \in RoleName : GrantRole(u, r)
    \/ \E u \in UserIds, r \in RoleName : RevokeRole(u, r)
    \/ \E i \in 1..Len(GuardNames), h \in Headers :
          GuardedRequest(GuardNames[i], h)

SpecGuard == InitDb /\ [][NextGuard]_vars

\* ------------------------------------------------------------ blog service
NewBlogNeverReel(userId, video) ==
    [user_id |-> userId, video |-> video, is_reel |-> FALSE,
     likes_count |-> 0, comments_count |-> 0, shares_count |-> 0,
     views_count |-> 0]
\* the blog row Create inserts: IsReel is dto.Video != ""
NewBlog(userId, video) ==
    [user_id |-> userId, video |-> video, is_reel |-> video # "",
     likes_count |-> 0, comments_count |-> 0, shares_count |-> 0,
     views_count |-> 0]

\* tx.Model(&UsersStats{}).Where("user_id = ?", u).Update(column, column + d):
\* no row, no change, no error
BumpStats(stats, u, column, d) ==
    IF u \in DOMAIN stats
    THEN [stats EXCEPT ![u][column] = @ + d]
    ELSE stats
\* the same for a counter column of blogs
BumpBlog(rows, b, column, d) ==
    IF b \in DOMAIN rows
    THEN [rows EXCEPT ![b][column] = @ + d]
    ELSE rows

\* The ids a client can name: those the server has issued so far (GenerateID
\* draws 22 random characters, so an id not yet issued cannot be guessed) and
\* an id that is never issued.
UnknownBlogId == <<"blog", 0>>
UnknownCommentId == <<"comment", 0>>
BlogRefs == {b \in BlogIds : b[2] <= issued.blog} \cup {UnknownBlogId}
CommentRefs ==
    {c \in CommentIds : c[2] <= issued.comment} \cup {UnknownCommentId}

\* what clients put in the body of POST /blogs: a text post, a video post, a
\* pinned post, and a pinned repost of each blog id
PinnedDays == 7
Post(video, pinned, reposted) ==
    [Video |-> video, Pinned |-> pinned, PinnedNumerOfDays |-> PinnedDays,
     RepostedFromBlogId |-> reposted]
CreateBlogDtos ==
    {Post("", FALSE, EmptyId), Post("clip.mp4", FALSE, EmptyId),
     Post("", TRUE, EmptyId)}
        \cup {Post("", TRUE, b) : b \in BlogRefs}

\* time.Time.AddDate(0, 0, days), the clock counting days
AddNoDate(t, days) == t
AddDate(t, days) == t + days

\* the counter update of a repost: shares_count = shares_count + 1
SharedUncounted(rows, blogId) == rows
Shared(rows, blogId) == BumpBlog(rows, blogId, "shares_count", 1)

\* BlogsService.Create (one transaction) behind BlogsController.CreateBlog
Create(dto, currentUser) ==
    /\ issued.blog < MaxBlogs
    /\ LET blogId == <<"blog", issued.blog + 1>>
           inserted == With(blogs, blogId,
                            NewBlog(currentUser.UserId, dto.Video))
       IN
       /\ issued' = [issued EXCEPT !.blog = @ + 1]
       /\ usersStats' =
              BumpStats(usersStats, currentUser.UserId, "total_posts", 1)
       /\ pinnedBlogs' =
              IF dto.Pinned /\ dto.RepostedFromBlogId = EmptyId
              THEN pinnedBlogs \cup
                       {[id |-> NewRowId(pinnedBlogs), blog_id |-> blogId,
                         user_id |-> currentUser.UserId, start_date |-> now,
                         end_date |-> AddDate(now, dto.PinnedNumerOfDays)]}
              ELSE pinnedBlogs
       /\ IF dto.RepostedFromBlogId # EmptyId
          THEN /\ blogs' = Shared(inserted, dto.RepostedFromBlogId)
               /\ shares' = shares \cup
                      {[id |-> NewRowId(shares),
                        user_id |-> currentUser.UserId,
                        ref_id |-> dto.RepostedFromBlogId]}
          ELSE /\ blogs' = inserted
               /\ shares' = shares
       /\ Record([op |-> "Create", caller |-> currentUser.UserId,
                  ref |-> blogId, status |-> StatusCreated,
                  isReel |-> inserted[blogId].is_reel, dto |-> dto])
    /\ UNCHANGED <<users, userRoles, follows, comments, likes, views>>
    /\ UNCHANGED ledgerVars

\* the counter update of FindOne: views_count = views_count + 1
ViewedTwice(rows, blogId) == BumpBlog(rows, blogId, "views_count", 2)
Viewed(rows, blogId) == BumpBlog(rows, blogId, "views_count", 1)

\* BlogsService.FindOne (one transaction) behind BlogsController.FindBlogById.
\* The blog is read before its counter is incremented, so the response carries
\* the count before this view.
FindOne(blogId, currentUser) ==
    /\ Cardinality(views) < MaxViews
    /\ IF blogId \notin DOMAIN blogs
       THEN /\ Record([op |-> "FindOne", caller |-> currentUser.UserId,
                       ref |-> blogId, status |-> StatusNotFound,
                       viewsCount |-> 0])
            /\ UNCHANGED <<blogs, views>>
       ELSE /\ blogs' = Viewed(blogs, blogId)
            /\ views' = views \cup
                   {[id |-> NewRowId(views), ref_id |-> blogId,
                     user_id |-> currentUser.UserId]}
            /\ Record([op |-> "FindOne", caller |-> currentUser.UserId,
                       ref |-> blogId, status |-> StatusOK,
                       viewsCount |-> blogs[blogId].views_count])
    /\ UNCHANGED <<users, userRoles, usersStats, follows, comments, likes,
                   shares, pinnedBlogs, issued>>
    /\ UNCHANGED ledgerVars

\* how many rows of each dependent table refer to a blog
RelatedRows(blogId) ==
    [comments |-> Cardinality({c \in DOMAIN comments :
                                  comments[c].ref_id = blogId}),
     likes |-> Cardinality({l \in likes : l.ref_id = blogId}),
     shares |-> Cardinality({x \in shares : x.ref_id = blogId}),
     pinned |-> Cardinality({p \in pinnedBlogs : p.blog_id = blogId})]

\* the rows Delete removes from likes: WHERE ref_id = blogId
LikesOfNoBlog(blogId) == {}
LikesOfBlog(blogId) == {l \in likes : l.ref_id = blogId}

\* BlogsService.Delete (one transaction) behind BlogsController.DeleteBlog
Delete(blogId, currentUser) ==
    /\ IF blogId \notin DOMAIN blogs
       THEN /\ Record([op |-> "Delete", caller |-> currentUser.UserId,
                       ref |-> blogId, status |-> StatusNotFound,
                       author |-> EmptyId, related |-> RelatedRows(blogId),
                       pre |-> 0])
            /\ UNCHANGED <<usersStats, blogs, comments, likes, shares,
                           pinnedBlogs>>
       ELSE LET blog == blogs[blogId] IN
            /\ pinnedBlogs' = {p \in pinnedBlogs : p.blog_id # blogId}
            /\ usersStats' =
                   BumpStats(usersStats, blog.user_id, "total_posts", -1)
            /\ comments' =
                   Without(comments,
                           {c \in DOMAIN comments :
                               comments[c].ref_id = blogId})
            /\ likes' = likes \ LikesOfBlog(blogId)
            /\ shares' = {x \in shares : x.ref_id # blogId}
            /\ blogs' = Without(blogs, {blogId})
            /\ Record([op |-> "Delete", caller |-> currentUser.UserId,
                       ref |-> blogId,
                       status |-> StatusNonAuthoritativeInformation,
                       author |-> blog.user_id,
                       related |-> RelatedRows(blogId),
                       pre |-> IF blog.user_id \in DOMAIN usersStats
                               THEN usersStats[blog.user_id].total_posts
                               ELSE 0])
    /\ UNCHANGED <<users, userRoles, follows, views, issued>>
    /\ UNCHANGED ledgerVars

\* the likes_count of a blog row, 0 when there is no such row
LikesCountOf(rows, b) == IF b \in DOMAIN rows THEN rows[b].likes_count ELSE 0

\* the counter update of the unlike branch: likes_count = likes_count - 1
UnlikedKept(rows, blogId) == rows
Unliked(rows, blogId) == BumpBlog(rows, blogId, "likes_count", -1)

\* BlogsService.LikeBlog (one transaction) behind BlogsController.LikeBlog.
\* First(&like) takes the matching row with the least primary key; keys are
\* random, so any matching row may be the one.  The unlike branch never loads
\* the blog: its response carries the zero value of blog.LikesCount.
LikeBlog(blogId, currentUser) ==
    LET matching == {l \in likes : /\ l.user_id = currentUser.UserId
                                   /\ l.ref_id = blogId}
        answer(status, liked, likesCount) ==
            [op |-> "LikeBlog", caller |-> currentUser.UserId,
             actor |-> currentUser.UserId, ref |-> blogId, status |-> status, liked |-> liked,
             likesCount |-> likesCount, hadLike |-> matching # {},
             pre |-> LikesCountOf(blogs, blogId)]
    IN
    /\ IF ~currentUser.IsAuthenticated
       THEN /\ Record(answer(StatusUnauthorized, FALSE, 0))
            /\ UNCHANGED <<usersStats, blogs, likes>>
       ELSE IF matching # {}
       THEN \E like \in matching :
               /\ likes' = likes \ {like}
               /\ blogs' = Unliked(blogs, blogId)
               /\ usersStats' = BumpStats(usersStats, currentUser.UserId,
                                          "total_likes", -1)
               /\ Record(answer(StatusAccepted, FALSE, 0))
       ELSE IF blogId \notin DOMAIN blogs
       THEN \* Update(...).First(&blog) finds no row: the insert is rolled back
            /\ Record(answer(StatusInternalServerError, FALSE, 0))
            /\ UNCHANGED <<usersStats, blogs, likes>>
       ELSE /\ likes' = likes \cup
                   {[id |-> NewRowId(likes), user_id |-> currentUser.UserId,
                     ref_id |-> blogId]}
            /\ blogs' = BumpBlog(blogs, blogId, "likes_count", 1)
            /\ usersStats' = BumpStats(usersStats, currentUser.UserId,
                                       "total_likes", 1)
            /\ Record(answer(StatusAccepted, TRUE,
                             blogs[blogId].likes_count + 1))
    /\ UNCHANGED <<users, userRoles, follows, comments, shares, views,
                   pinnedBlogs, issued>>
    /\ UNCHANGED ledgerVars

\* the counter update of AddComment: comments_count = comments_count + 1
CommentedUncounted(rows, blogId) == rows
Commented(rows, blogId) == BumpBlog(rows, blogId, "comments_count", 1)

\* BlogsService.AddComment behind BlogsController.AddComment.  The blog is not
\* looked up: the comment row is inserted whatever blogId is, and the counter
\* update touches the blog row if there is one.
AddComment(blogId, currentUser) ==
    /\ issued.comment < MaxComments
    /\ LET commentId == <<"comment", issued.comment + 1>> IN
       /\ issued' = [issued EXCEPT !.comment = @ + 1]
       /\ comments' = With(comments, commentId,
                           [user_id |-> currentUser.UserId,
                            ref_id |-> blogId, replies_count |-> 0,
                            likes_count |-> 0])
       /\ blogs' = Commented(blogs, blogId)
       /\ Record([op |-> "AddComment", caller |-> currentUser.UserId,
                  ref |-> blogId, comment |-> commentId,
                  status |-> StatusCreated])
    /\ UNCHANGED <<users, userRoles, usersStats, follows, likes, shares,
                   views, pinnedBlogs>>
    /\ UNCHANGED ledgerVars

\* the replies_count update of the reply branch of DeleteComment
BumpComment(rows, c, column, d) ==
    IF c \in DOMAIN rows
    THEN [rows EXCEPT ![c][column] = @ + d]
    ELSE rows

\* DeleteComment's counter step: comment.RefId is looked up among the blogs
\* first; a blog found has its comments_count decremented, otherwise the
\* comment with that id, if any, has its replies_count decremented.  The
\* result is the pair of tables <<blogs, comments>>.
ParentUncounted(blogRows, commentRows, refId) == <<blogRows, commentRows>>
ParentCounted(blogRows, commentRows, refId) ==
    IF refId = EmptyId THEN <<blogRows, commentRows>>
    ELSE IF refId \in DOMAIN blogRows
    THEN <<BumpBlog(blogRows, refId, "comments_count", -1), commentRows>>
    ELSE <<blogRows, BumpComment(commentRows, refId, "replies_count", -1)>>

\* BlogsService.DeleteComment (one transaction) behind
\* BlogsController.DeleteComment
DeleteComment(commentId, currentUser) ==
    /\ IF commentId \notin DOMAIN comments
       THEN /\ Record([op |-> "DeleteComment", caller |-> currentUser.UserId,
                       ref |-> commentId, status |-> StatusNotFound,
                       parent |-> EmptyId])
            /\ UNCHANGED <<blogs, comments, likes>>
       ELSE LET comment == comments[commentId]
                noReplies ==
                    Without(comments,
                            {c \in DOMAIN comments :
                                comments[c].ref_id = commentId})
                counted == ParentCounted(blogs, noReplies, comment.ref_id)
            IN
            /\ likes' = {l \in likes : l.ref_id # commentId}
            /\ blogs' = counted[1]
            /\ comments' = Without(counted[2], {commentId})
            /\ Record([op |-> "DeleteComment", caller |-> currentUser.UserId,
                       ref |-> commentId,
                       status |-> StatusNonAuthoritativeInformation,
                       parent |-> comment.ref_id])
    /\ UNCHANGED <<users, userRoles, usersStats, follows, shares, views,
                   pinnedBlogs, issued>>
    /\ UNCHANGED ledgerVars

\* BlogsService.AddReply (one transaction) behind BlogsController.AddReply.
\* The comment is not looked up: the reply row is inserted whatever commentId
\* is, and the counter update touches the comment row if there is one.
AddReply(commentId, currentUser) ==
    /\ issued.comment < MaxComments + MaxReplies
    /\ LET replyId == <<"comment", issued.comment + 1>> IN
       /\ issued' = [issued EXCEPT !.comment = @ + 1]
       /\ comments' =
              BumpComment(With(comments, replyId,
                               [user_id |-> currentUser.UserId,
                                ref_id |-> commentId, replies_count |-> 0,
                                likes_count |-> 0]),
                          commentId, "replies_count", 1)
       /\ Record([op |-> "AddReply", caller |-> currentUser.UserId,
                  ref |-> commentId, comment |-> replyId,
                  status |-> StatusCreated])
    /\ UNCHANGED <<users, userRoles, usersStats, follows, blogs, likes,
                   shares, views, pinnedBlogs>>
    /\ UNCHANGED ledgerVars

\* BlogsService.LikeComment (one transaction) behind
\* BlogsController.LikeComment.  Both branches end in
\* Update("likes_count", ...).First(&comment): when no comment has the id the
\* transaction is rolled back.
LikeComment(commentId, currentUser) ==
    LET matching == {l \in likes : /\ l.user_id = currentUser.UserId
                                   /\ l.ref_id = commentId}
        answer(status, liked, likesCount) ==
            [op |-> "LikeComment", caller |-> currentUser.UserId,
             actor |-> currentUser.UserId, ref |-> commentId,
             status |-> status, liked |-> liked, likesCount |-> likesCount,
             hadLike |-> matching # {}]
    IN
    /\ IF ~currentUser.IsAuthenticated
       THEN /\ Record(answer(StatusUnauthorized, FALSE, 0))
            /\ UNCHANGED <<comments, likes>>
       ELSE IF commentId \notin DOMAIN comments
       THEN /\ Record(answer(StatusInternalServerError, FALSE, 0))
            /\ UNCHANGED <<comments, likes>>
       ELSE IF matching # {}
       THEN \E like \in matching :
               /\ likes' = likes \ {like}
               /\ comments' =
                      BumpComment(comments, commentId, "likes_count", -1)
               /\ Record(answer(StatusAccepted, FALSE,
                                comments[commentId].likes_count - 1))
       ELSE /\ likes' = likes \cup
                   {[id |-> NewRowId(likes), user_id |-> currentUser.UserId,
                     ref_id |-> commentId]}
            /\ comments' = BumpComment(comments, commentId, "likes_count", 1)
            /\ Record(answer(StatusAccepted, TRUE,
                             comments[commentId].likes_count + 1))
    /\ UNCHANGED <<users, userRoles, usersStats, follows, blogs, shares,
                   views, pinnedBlogs, issued>>
    /\ UNCHANGED ledgerVars

\* The database the blog requests start from: every account exists with its
\* stats row and holds the Authenticated role, except that the newest one may
\* be as POST /users leaves it, without a role.
InitAccounts ==
    /\ users = UserIds
    /\ \E newest \in {{}, {RoleNameAuthenticated}} :
          userRoles = [u \in UserIds |->
                          IF u = <<"user", MaxUsers>> THEN newest
                          ELSE {RoleNameAuthenticated}]
    /\ usersStats = [u \in UserIds |-> ZeroStats]
    /\ follows = {}
    /\ blogs = <<>>
    /\ comments = <<>>
    /\ likes = {}
    /\ shares = {}
    /\ views = {}
    /\ pinnedBlogs = {}
    /\ issued = [user |-> MaxUsers, blog |-> 0, comment |-> 0]
    /\ now = 0
    /\ last = NoCall
    /\ prev = NoCall
    /\ pending = {}

Init ==
    /\ InitAccounts
    /\ wallets = <<>>
    /\ transactions = {}
    /\ subscriptions = <<>>
    /\ businesses = {}

Next ==
    \/ \E c \in Callers, dto \in CreateBlogDtos : Create(dto, c)
    \/ \E c \in Callers, b \in BlogRefs : FindOne(b, c)
    \/ \E c \in Callers, b \in BlogRefs : Delete(b, c)
    \/ \E c \in Callers, b \in BlogRefs : LikeBlog(b, c)
    \/ \E c \in Callers, b \in BlogRefs : AddComment(b, c)
    \/ \E c \in Callers, k \in CommentRefs : DeleteComment(k, c)

Spec == Init /\ [][Next]_vars

\* the comment threads of the blog service: blogs, comments on them, replies,
\* likes of comments
NextComments ==
    \/ \E c \in Callers : Create(Post("", FALSE, EmptyId), c)
    \/ \E c \in Callers, b \in BlogRefs : AddComment(b, c)
    \/ \E c \in Callers, k \in CommentRefs : AddReply(k, c)
    \/ \E c \in Callers, k \in CommentRefs : DeleteComment(k, c)
    \/ \E c \in Callers, k \in CommentRefs : LikeComment(k, c)

SpecComments == Init /\ [][NextComments]_vars


\* ----------------------------------------------------------- users service
\* Where(&Follow{FollowerId: .., FollowingId: ..}): a struct condition leaves
\* out the fields holding the zero value
FollowMatches(f, followerId, followingId) ==
    /\ followerId = EmptyId \/ f.follower_id = followerId
    /\ followingId = EmptyId \/ f.following_id = followingId

FollowUnfollowDtos ==
    [FollowerId : UserIds \cup {EmptyId}, FollowingId : UserIds \cup {EmptyId}]

StatOf(u, column) == IF u \in DOMAIN usersStats THEN usersStats[u][column] ELSE 0

\* the two counter updates of the unfollow branch
UnfollowedStatsOneSided(dto) ==
    BumpStats(usersStats, dto.FollowingId, "followers_count", -1)
UnfollowedStats(dto) ==
    BumpStats(BumpStats(usersStats, dto.FollowingId, "followers_count", -1),
              dto.FollowerId, "followings_count", -1)

\* UsersService.FollowUnfollowUser behind UsersController.FollowUnfollowUser:
\* separate statements, no transaction.  First(&follow) takes the matching row
\* with the least primary key; keys are random, so any matching row may be the
\* one.  The insert fails on the foreign keys of follows when an id is not a
\* user's.
FollowUnfollowUser(dto, currentUser) ==
    LET matching == {f \in follows :
                        FollowMatches(f, dto.FollowerId, dto.FollowingId)}
        answer(status, followed) ==
            [op |-> "FollowUnfollowUser", caller |-> currentUser.UserId,
             actor |-> dto.FollowerId, ref |-> dto.FollowingId,
             status |-> status, followed |-> followed,
             hadRow |-> matching # {},
             preFollowers |-> StatOf(dto.FollowingId, "followers_count"),
             preFollowings |-> StatOf(dto.FollowerId, "followings_count")]
    IN
    /\ IF matching # {}
       THEN \E follow \in matching :
               /\ follows' = follows \ {follow}
               /\ usersStats' = UnfollowedStats(dto)
               /\ Record(answer(StatusCreated, FALSE))
       ELSE IF dto.FollowerId \notin users \/ dto.FollowingId \notin users
       THEN /\ Record(answer(StatusInternalServerError, FALSE))
            /\ UNCHANGED <<follows, usersStats>>
       ELSE /\ follows' = follows \cup
                   {[id |-> NewRowId(follows), follower_id |-> dto.FollowerId,
                     following_id |-> dto.FollowingId]}
            /\ usersStats' =
                   BumpStats(BumpStats(usersStats, dto.FollowingId,
                                       "followers_count", 1),
                             dto.FollowerId, "followings_count", 1)
            /\ Record(answer(StatusCreated, TRUE))
    /\ UNCHANGED <<users, userRoles, blogs, comments, likes, shares, views,
                   pinnedBlogs, issued>>
    /\ UNCHANGED ledgerVars

\* ---------------------------------------------------------------- listing
\* Go's integer division truncates toward zero
Abs(n) == IF n < 0 THEN -n ELSE n
GoDiv(a, b) ==
    IF (a < 0) = (b < 0) THEN Abs(a) \div Abs(b) ELSE -(Abs(a) \div Abs(b))
\* totalPages := (totalItems + int64(limit) - 1) / int64(limit)
TotalPages(totalItems, limit) == GoDiv(totalItems + limit - 1, limit)

\* the page and limit query parameters clients send; strconv.Atoi gives 0 for
\* text that is no number, and a request without the parameters gets page 1
\* and limit DefaultQueryLimit
Pages == -1 .. MaxPage
Limits == (-1 .. MaxLimit) \cup {DefaultQueryLimit}

PaginationMetadata(page, limit, totalItems) ==
    [CurrentPage |-> page, ItemsPerPage |-> limit, TotalItems |-> totalItems,
     TotalPages |-> TotalPages(totalItems, limit),
     HasNextPage |-> page < TotalPages(totalItems, limit),
     HasPreviousPage |-> page > 1]

\* .Limit(limit).Offset(offset) on an ordered result: gorm writes LIMIT only
\* for a limit above 0 here (a limit of 0 never reaches the response) and
\* OFFSET only for an offset above 0
RECURSIVE Drop(_, _)
Drop(rows, n) == IF n <= 0 \/ rows = <<>> THEN rows ELSE Drop(Tail(rows), n - 1)
Take(rows, n) == IF n >= Len(rows) THEN rows ELSE SubSeq(rows, 1, n)
LimitOffset(rows, limit, offset) ==
    LET rest == Drop(rows, offset) IN
    IF limit > 0 THEN Take(rest, limit) ELSE rest

\* the orders a query may return the rows of a set in
Orders(S) ==
    {q \in [1 .. Cardinality(S) -> S] :
        \A i, j \in 1 .. Cardinality(S) : q[i] = q[j] => i = j}
\* ORDER BY created_at DESC: blogs are created one per tick
RECURSIVE NewestFirst(_)
NewestFirst(S) ==
    IF S = {} THEN <<>>
    ELSE LET newest == CHOOSE b \in S : \A c \in S : c[2] <= b[2]
         IN <<newest>> \o NewestFirst(S \ {newest})

Listed(op, currentUser, ref, page, limit, data, meta) ==
    [op |-> op, caller |-> currentUser.UserId, ref |-> ref,
     status |-> StatusOK, panicked |-> FALSE, page |-> page, limit |-> limit,
     data |-> data, meta |-> meta]

\* BlogsService.FindAll behind BlogsController.FindAllBlogs.  page and limit
\* are used as given; a limit of 0 divides by zero in totalPages, and no
\* middleware recovers the panic, so the request gets no response.
FindAll(currentUser, page, limit) ==
    LET totalItems == Cardinality(DOMAIN blogs)
        offset == (page - 1) * limit
    IN
    /\ IF limit = 0
       THEN Record([op |-> "FindAll", caller |-> currentUser.UserId,
                    ref |-> EmptyId, status |-> 0, panicked |-> TRUE,
                    page |-> page, limit |-> limit, data |-> <<>>,
                    meta |-> [CurrentPage |-> page, ItemsPerPage |-> limit,
                              TotalItems |-> totalItems, TotalPages |-> 0,
                              HasNextPage |-> FALSE,
                              HasPreviousPage |-> FALSE]])
       ELSE Record(Listed("FindAll", currentUser, EmptyId, page, limit,
                          LimitOffset(NewestFirst(DOMAIN blogs), limit,
                                      offset),
                          PaginationMetadata(page, limit, totalItems)))
    /\ UNCHANGED dbVars

\* the clamping at the head of the users service's list operations
ClampPage(page) == IF page < 1 THEN 1 ELSE page
ClampLimit(limit) == IF limit < 1 THEN DefaultUsersLimit ELSE limit

\* UsersService.FindAllUsers behind UsersController.FindAllUsers (no search
\* term): ORDER BY RANDOM()
FindAllUsers(page, limit, currentUser) ==
    LET p == ClampPage(page)
        l == ClampLimit(limit)
    IN
    /\ \E order \in Orders(users) :
          Record(Listed("FindAllUsers", currentUser, EmptyId, page, limit,
                        LimitOffset(order, l, (p - 1) * l),
                        PaginationMetadata(p, l, Cardinality(users))))
    /\ UNCHANGED dbVars

\* the follower_id column of the follows rows WHERE following_id = userId
FollowingIdsOf(userId) ==
    {f.following_id : f \in {g \in follows : g.following_id = userId}}
FollowerIdsOf(userId) ==
    {f.follower_id : f \in {g \in follows : g.following_id = userId}}

\* UsersService.FindUserFollowers behind UsersController.FindUserFollowers (no
\* search term): totalItems counts the follows rows, data is the users whose
\* id is among the follower ids, ORDER BY RANDOM()
FindUserFollowers(userId, page, limit, currentUser) ==
    LET p == ClampPage(page)
        l == ClampLimit(limit)
        totalItems ==
            Cardinality({f \in follows : f.following_id = userId})
    IN
    /\ \E order \in Orders(users \cap FollowerIdsOf(userId)) :
          Record(Listed("FindUserFollowers", currentUser, userId, page, limit,
                        LimitOffset(order, l, (p - 1) * l),
                        PaginationMetadata(p, l, totalItems)))
    /\ UNCHANGED dbVars

NextLists ==
    \/ \E c \in Callers, dto \in CreateBlogDtos : Create(dto, c)
    \/ \E c \in Callers, page \in Pages, limit \in Limits :
          FindAll(c, page, limit)
    \/ \E c \in Callers, page \in Pages, limit \in Limits :
          FindAllUsers(page, limit, c)

NextFollows ==
    \/ \E c \in Callers, dto \in FollowUnfollowDtos :
          FollowUnfollowUser(dto, c)
    \/ \E c \in Callers, u \in UserIds, page \in Pages, limit \in Limits :
          FindUserFollowers(u, page, limit, c)

SpecFollows == Init /\ [][NextFollows]_vars
SpecLists == Init /\ [][NextLists]_vars

\* ========================================================= blog properties
\* C1: when a user who has no like on an existing blog calls LikeBlog twice in
\* a row and both calls succeed, the first call answers liked = true and
\* leaves a Like row for (user, blog), the second answers liked = false and
\* leaves no such row, and the blog's likes_count after the second call is what
\* it was before the first.
LikeRows(u, b) == {l \in likes : l.user_id = u /\ l.ref_id = b}
C1_LikeThenUnlike ==
    /\ (/\ last.op = "LikeBlog"
        /\ last.status = StatusAccepted
        /\ ~last.hadLike)
       => /\ last.liked
          /\ Cardinality(LikeRows(last.caller, last.ref)) = 1
    /\ (/\ last.op = "LikeBlog"
        /\ last.status = StatusAccepted
        /\ prev.op = "LikeBlog"
        /\ ~prev.hadLike)
       => /\ prev.liked
          /\ last.hadLike
          /\ ~last.liked
          /\ LikeRows(last.caller, last.ref) = {}
          /\ last.ref \in DOMAIN blogs
          /\ blogs[last.ref].likes_count = prev.pre
\* a like and its unlike on a blog that another user likes too
C1_Witness ==
    /\ last.op = "LikeBlog"
    /\ last.status = StatusAccepted
    /\ prev.op = "LikeBlog"
    /\ prev.liked
    /\ ~last.liked
    /\ prev.pre = 1

\* C2: a FindOne that succeeds adds exactly 1 to the blog's views_count and
\* inserts exactly one View row, for (caller, blog), leaving the other View
\* rows as they were.
C2_FindOneCountsView ==
    [][(last'.op = "FindOne" /\ last'.status = StatusOK)
       => LET b == last'.ref IN
          /\ b \in DOMAIN blogs
          /\ b \in DOMAIN blogs'
          /\ blogs'[b].views_count = blogs[b].views_count + 1
          /\ views \subseteq views'
          /\ Cardinality(views' \ views) = 1
          /\ \A v \in views' \ views :
                v.ref_id = b /\ v.user_id = last'.caller]_vars
\* the second view of a blog
C2_Witness ==
    /\ last.op = "FindOne"
    /\ last.status = StatusOK
    /\ last.viewsCount = 1
    /\ blogs[last.ref].views_count = 2
    /\ Cardinality({v \in views : v.ref_id = last.ref}) = 2

\* C3: after a Delete that succeeds, no Comment, Like, Share or PinnedBlog row
\* refers to the blog, the blog row is gone, and the author's total_posts is
\* lower by exactly 1.
C3_DeleteRemovesRelated ==
    (last.op = "Delete" /\ last.status = StatusNonAuthoritativeInformation)
    => /\ last.ref \notin DOMAIN blogs
       /\ RelatedRows(last.ref) =
              [comments |-> 0, likes |-> 0, shares |-> 0, pinned |-> 0]
       /\ last.author \in DOMAIN usersStats
       /\ usersStats[last.author].total_posts = last.pre - 1
\* the deleted blog had a comment, a like, a share and a pin, and another blog
\* remains
C3_Witness ==
    /\ last.op = "Delete"
    /\ last.status = StatusNonAuthoritativeInformation
    /\ last.related.comments > 0
    /\ last.related.likes > 0
    /\ last.related.shares > 0
    /\ last.related.pinned > 0
    /\ DOMAIN blogs # {}

\* ======================================================== users properties
\* C4: when an actor who does not follow a target calls FollowUnfollowUser
\* twice in a row for that target and both calls succeed, the first call
\* answers followed = true and leaves a Follow row for (actor, target), the
\* second answers followed = false and leaves no such row, and the target's
\* followers_count and the actor's followings_count are what they were before
\* the first call.
FollowRows(a, b) ==
    {f \in follows : f.follower_id = a /\ f.following_id = b}
C4_FollowThenUnfollow ==
    /\ (/\ last.op = "FollowUnfollowUser"
        /\ last.status = StatusCreated
        /\ ~last.hadRow)
       => /\ last.followed
          /\ Cardinality(FollowRows(last.actor, last.ref)) = 1
    /\ (/\ last.op = "FollowUnfollowUser"
        /\ last.status = StatusCreated
        /\ prev.op = "FollowUnfollowUser"
        /\ ~prev.hadRow)
       => /\ prev.followed
          /\ ~last.followed
          /\ FollowRows(last.actor, last.ref) = {}
          /\ StatOf(last.ref, "followers_count") = prev.preFollowers
          /\ StatOf(last.actor, "followings_count") = prev.preFollowings
\* a follow and its unfollow of a target that someone else follows too
C4_Witness ==
    /\ last.op = "FollowUnfollowUser"
    /\ last.status = StatusCreated
    /\ prev.op = "FollowUnfollowUser"
    /\ prev.followed
    /\ ~last.followed
    /\ last.actor # last.ref
    /\ prev.preFollowers = 1

Occurrences(q, x) == Cardinality({i \in 1 .. Len(q) : q[i] = x})
\* a response that holds the whole list: the first page, with room for every
\* item
WholeList(call) ==
    /\ call.meta.CurrentPage = 1
    /\ call.meta.TotalItems <= call.meta.ItemsPerPage

\* C5 as stated, read of the first page of the list whatever the limit: the
\* followers list of B returned right after A followed B contains A exactly
\* once, and the one returned right after A unfollowed B does not contain A.
C5_FollowersListContains ==
    (/\ last.op = "FindUserFollowers"
     /\ last.meta.CurrentPage = 1
     /\ prev.op = "FollowUnfollowUser"
     /\ prev.ref = last.ref)
    => IF prev.followed
       THEN Occurrences(last.data, prev.actor) = 1
       ELSE Occurrences(last.data, prev.actor) = 0
\* C5, amended: the followers list of B returned right after A followed B
\* contains A exactly once when the request is for the first page and B has no
\* more followers than the page holds; for any page and limit, the one
\* returned right after A unfollowed B does not contain A.
C5_FollowersPageContains ==
    (/\ last.op = "FindUserFollowers"
     /\ prev.op = "FollowUnfollowUser"
     /\ prev.ref = last.ref)
    => IF prev.followed
       THEN WholeList(last) => Occurrences(last.data, prev.actor) = 1
       ELSE Occurrences(last.data, prev.actor) = 0
\* B's two followers listed after A followed B
C5_Witness ==
    /\ last.op = "FindUserFollowers"
    /\ prev.op = "FollowUnfollowUser"
    /\ prev.ref = last.ref
    /\ prev.followed
    /\ prev.actor # prev.ref
    /\ WholeList(last)
    /\ Len(last.data) = 2
    /\ Occurrences(last.data, prev.actor) = 1

\* ceil(a / b) for b # 0
CeilDiv(a, b) ==
    LET n == IF b > 0 THEN a ELSE -a
        d == Abs(b)
    IN CHOOSE q \in -Abs(a) .. Abs(a) : (q - 1) * d < n /\ n <= q * d

\* C6: every call of a paginated list operation, whatever page and limit the
\* client sends, returns a response whose totalPages is
\* ceil(totalItems / limit), whose hasNextPage is page < totalPages, whose
\* hasPreviousPage is page > 1 and whose data has at most limit items (page and
\* limit being the currentPage and itemsPerPage the response reports).
C6_PaginationContract ==
    last.op \in {"FindAll", "FindAllUsers", "FindUserFollowers"}
    => /\ ~last.panicked
       /\ last.status = StatusOK
       /\ last.meta.ItemsPerPage # 0
       /\ last.meta.TotalPages =
              CeilDiv(last.meta.TotalItems, last.meta.ItemsPerPage)
       /\ last.meta.HasNextPage =
              (last.meta.CurrentPage < last.meta.TotalPages)
       /\ last.meta.HasPreviousPage = (last.meta.CurrentPage > 1)
       /\ Len(last.data) <= last.meta.ItemsPerPage

\* ======================================================== guard properties
\* the request carries the token issued for a user whose row exists
ValidTokenOf(authorization, u) ==
    u \in users /\ authorization = Bearer(JwtEncode(u))

\* C7: on a route behind the Admin guard, a request with a valid token is
\* answered 403 without running the handler when the user's only role is
\* Authenticated, and reaches the handler with an authenticated current user
\* when the user's roles include Admin.
C7_AdminGuardByRole ==
    (last.op = "Guard" /\ last.guard = "Admin") =>
        \A u \in users :
            ValidTokenOf(last.authorization, u) =>
                /\ userRoles[u] = {RoleNameAuthenticated} =>
                       (last.status = StatusForbidden /\ ~last.next)
                /\ RoleNameAdmin \in userRoles[u] =>
                       /\ last.next
                       /\ last.user.set
                       /\ last.user.IsAuthenticated
                       /\ last.user.UserId = u

C7_Witness ==
    /\ last.op = "Guard"
    /\ last.guard = "Admin"
    /\ last.next
    /\ \E u \in users : /\ ValidTokenOf(last.authorization, u)
                        /\ RoleNameAdmin \in userRoles[u]

\* the four ways a request fails to authenticate
Unauthenticated(authorization) ==
    \/ authorization = <<>>
    \/ authorization \in MalformedHeaders
    \/ \E t \in ClientTokens :
          authorization = Bearer(t) /\ (~t.signed \/ t.uid \notin users)

\* C8: every guard that requires authentication answers 401 and does not call
\* the handler when the Authorization header is missing, is not of the form
\* "Bearer <token>", carries a token whose signature does not verify, or
\* carries a token whose user id has no user row.
C8_Unauthorized401 ==
    (/\ last.op = "Guard"
     /\ last.guard # "Anonymous"
     /\ Unauthenticated(last.authorization)) =>
        (last.status = StatusUnauthorized /\ ~last.next)

C8_Witness ==
    /\ last.op = "Guard"
    /\ last.guard = "SuperAdmin"
    /\ last.status = StatusUnauthorized
    /\ \E t \in ClientTokens :
          /\ last.authorization = Bearer(t)
          /\ t.signed
          /\ t.uid \in UserIds \ users

\* the roles each guard is documented to admit
AllowedRoles(name) ==
    CASE name = "Authenticated" ->
             {RoleNameAuthenticated, RoleNameBusinessOwner,
              RoleNamePaymentAgent, RoleNameAdmin, RoleNameSuperAdmin}
      [] name = "BusinessOwner" ->
             {RoleNameBusinessOwner, RoleNameAdmin, RoleNameSuperAdmin}
      [] name = "PaymentAgent" ->
             {RoleNamePaymentAgent, RoleNameAdmin, RoleNameSuperAdmin}
      [] name = "Admin" -> {RoleNameAdmin, RoleNameSuperAdmin}
      [] name = "SuperAdmin" -> {RoleNameSuperAdmin}
      [] OTHER -> RoleName

\* C9: every guard answers 403, without running the handler, a request whose
\* valid token belongs to a user holding no role of the guard's allowed set;
\* the Authenticated guard so rejects a user with no recognized role.
C9_ForbiddenWithoutRole ==
    (last.op = "Guard" /\ last.guard # "Anonymous") =>
        \A u \in users :
            (/\ ValidTokenOf(last.authorization, u)
             /\ userRoles[u] \cap AllowedRoles(last.guard) = {}) =>
                (last.status = StatusForbidden /\ ~last.next)

\* whether the named guard lets the holder of u's token through
Admits(name, u) == Guard(name, Bearer(JwtEncode(u))).next

C11_AnonymousNeverRejects ==
    (last.op = "Guard" /\ last.guard = "Anonymous")
    => /\ last.next
       /\ last.user.set
       /\ ~last.user.IsAuthenticated

\* ================================================= blog properties, continued
\* C12: a blog created with a non-empty video is stored and returned with
\* isReel true, and a blog created without a video is stored and returned
\* with isReel false.
C12_IsReelIffVideo ==
    (last.op = "Create" /\ last.status = StatusCreated)
    => /\ last.isReel = (last.dto.Video # "")
       /\ last.ref \in DOMAIN blogs
       /\ blogs[last.ref].is_reel = (last.dto.Video # "")
\* a video post was created
C12_Witness ==
    /\ last.op = "Create"
    /\ last.status = StatusCreated
    /\ last.dto.Video # ""
    /\ last.isReel
    /\ blogs[last.ref].is_reel

\* C13: every blog or comment operation addressed to an id that does not
\* exist (fetch, delete, like/unlike a blog, add a comment to a blog, add a
\* reply to a comment, like/unlike or delete a comment) by a caller who is let
\* in answers 404 and leaves every table and counter unchanged.
C13_MissingIdIs404 ==
    [][(/\ \/ /\ last'.op \in {"FindOne", "Delete", "LikeBlog", "AddComment"}
              /\ last'.ref \notin DOMAIN blogs
           \/ /\ last'.op \in {"DeleteComment", "AddReply", "LikeComment"}
              /\ last'.ref \notin DOMAIN comments
        /\ last'.status # StatusUnauthorized)
       => /\ last'.status = StatusNotFound
          /\ UNCHANGED dbVars]_vars

\* C14: after every completed operation of any sequence of blog operations,
\* each existing blog's likes_count, comments_count, shares_count and
\* views_count is the number of Like, Comment, Share and View rows whose
\* ref_id is the blog's id.
ViewRows(b) == {v \in views : v.ref_id = b}
C14_CountersMatchRows ==
    \A b \in DOMAIN blogs :
        /\ blogs[b].likes_count = RelatedRows(b).likes
        /\ blogs[b].comments_count = RelatedRows(b).comments
        /\ blogs[b].shares_count = RelatedRows(b).shares
        /\ blogs[b].views_count = Cardinality(ViewRows(b))
\* a blog that has been liked, commented, reposted and viewed
C14_Witness ==
    \E b \in DOMAIN blogs :
        /\ blogs[b].likes_count = 1
        /\ blogs[b].comments_count = 1
        /\ blogs[b].shares_count = 1
        /\ blogs[b].views_count = 1

\* ------------------------------------------------ requests served together
\* Fiber serves every request on its own goroutine and gorm opens
\* transactions at the database's default isolation (read committed); no
\* statement takes a lock and likes has no unique index on (user_id, ref_id).
\* A transaction is modelled by its first read and, later, its writes and
\* commit: between the two another request may run.
MaxPending == 2

NoLike == [id |-> 0, user_id |-> EmptyId, ref_id |-> EmptyId]

NewRequestId == CHOOSE n \in 1..(Cardinality(pending) + 1) :
                    \A p \in pending : p.rid # n

\* LikeBlog up to First(&like): the transaction has read the caller's row, or
\* found none.
LikeBlogBegin(blogId, currentUser) ==
    LET matching == {l \in likes : /\ l.user_id = currentUser.UserId
                                   /\ l.ref_id = blogId}
    IN
    /\ currentUser.IsAuthenticated
    /\ Cardinality(pending) < MaxPending
    /\ \E found \in (IF matching = {} THEN {NoLike} ELSE matching) :
          pending' = pending \cup
              {[rid |-> NewRequestId, op |-> "LikeBlog",
                caller |-> currentUser.UserId, ref |-> blogId,
                found |-> found]}
    /\ UNCHANGED <<dbVars, now, last, prev>>

\* LikeBlog from the branch on what First(&like) returned to the commit and
\* the response.  Delete(&like) deletes by primary key and is no error when
\* the row is gone already.
LikeBlogCommit(p) ==
    LET answer(status, liked, likesCount) ==
            [op |-> "LikeBlog", caller |-> p.caller, actor |-> p.caller,
             ref |-> p.ref, status |-> status, liked |-> liked,
             likesCount |-> likesCount, hadLike |-> p.found # NoLike,
             pre |-> LikesCountOf(blogs, p.ref)]
    IN
    /\ p.op = "LikeBlog"
    /\ pending' = pending \ {p}
    /\ IF p.found # NoLike
       THEN /\ likes' = likes \ {p.found}
            /\ blogs' = Unliked(blogs, p.ref)
            /\ usersStats' = BumpStats(usersStats, p.caller, "total_likes", -1)
            /\ Respond(answer(StatusAccepted, FALSE, 0))
       ELSE IF p.ref \notin DOMAIN blogs
       THEN /\ Respond(answer(StatusInternalServerError, FALSE, 0))
            /\ UNCHANGED <<usersStats, blogs, likes>>
       ELSE /\ likes' = likes \cup
                   {[id |-> NewRowId(likes), user_id |-> p.caller,
                     ref_id |-> p.ref]}
            /\ blogs' = BumpBlog(blogs, p.ref, "likes_count", 1)
            /\ usersStats' = BumpStats(usersStats, p.caller, "total_likes", 1)
            /\ Respond(answer(StatusAccepted, TRUE,
                              blogs[p.ref].likes_count + 1))
    /\ UNCHANGED <<users, userRoles, follows, comments, shares, views,
                   pinnedBlogs, issued>>
    /\ UNCHANGED ledgerVars

NextLikeRace ==
    \/ \E c \in Callers : Create(Post("", FALSE, EmptyId), c)
    \/ \E c \in Callers, b \in BlogRefs : LikeBlogBegin(b, c)
    \/ \E p \in pending : LikeBlogCommit(p)

SpecLikeRace == Init /\ [][NextLikeRace]_vars

\* C15: no two rows of likes have the same user_id and the same ref_id, also
\* when two LikeBlog requests of one user for one blog are served together.
C15_OneLikePerUserAndRef ==
    \A l1, l2 \in likes :
        (l1.user_id = l2.user_id /\ l1.ref_id = l2.ref_id) => l1 = l2


\* UsersService.FollowUnfollowUser statement by statement: it opens no
\* transaction, so each statement commits on its own, and an error of a
\* counter update is logged and otherwise ignored.
\* the statement-by-statement runs are this many calls long
MaxFollowCalls == 3

NoFollow == [id |-> 0, follower_id |-> EmptyId, following_id |-> EmptyId]

\* First(&follow)
FollowLookup(dto, currentUser) ==
    LET matching == {f \in follows :
                        FollowMatches(f, dto.FollowerId, dto.FollowingId)}
    IN
    /\ Cardinality(pending) < MaxPending
    /\ now + Cardinality(pending) < MaxFollowCalls
    /\ \E found \in (IF matching = {} THEN {NoFollow} ELSE matching) :
          pending' = pending \cup
              {[rid |-> NewRequestId, op |-> "FollowUnfollowUser",
                caller |-> currentUser.UserId, dto |-> dto, found |-> found,
                pc |-> "row"]}
    /\ UNCHANGED <<dbVars, now, last, prev>>

FollowAnswer(p, status, followed) ==
    [op |-> "FollowUnfollowUser", caller |-> p.caller,
     actor |-> p.dto.FollowerId, ref |-> p.dto.FollowingId,
     status |-> status, followed |-> followed, hadRow |-> p.found # NoFollow,
     preFollowers |-> StatOf(p.dto.FollowingId, "followers_count"),
     preFollowings |-> StatOf(p.dto.FollowerId, "followings_count")]

\* Delete(&follow) or Create(&follow)
FollowRow(p) ==
    /\ p.op = "FollowUnfollowUser"
    /\ p.pc = "row"
    /\ IF p.found # NoFollow
       THEN /\ follows' = follows \ {p.found}
            /\ pending' = (pending \ {p}) \cup {[p EXCEPT !.pc = "followers"]}
            /\ UNCHANGED <<now, last, prev>>
       ELSE IF p.dto.FollowerId \notin users \/ p.dto.FollowingId \notin users
       THEN /\ pending' = pending \ {p}
            /\ Respond(FollowAnswer(p, StatusInternalServerError, FALSE))
            /\ UNCHANGED follows
       ELSE /\ follows' = follows \cup
                   {[id |-> NewRowId(follows),
                     follower_id |-> p.dto.FollowerId,
                     following_id |-> p.dto.FollowingId]}
            /\ pending' = (pending \ {p}) \cup {[p EXCEPT !.pc = "followers"]}
            /\ UNCHANGED <<now, last, prev>>
    /\ UNCHANGED <<users, userRoles, usersStats, blogs, comments, likes,
                   shares, views, pinnedBlogs, issued>>
    /\ UNCHANGED ledgerVars

\* +1 after Create, -1 after Delete
FollowDelta(p) == IF p.found # NoFollow THEN -1 ELSE 1

\* the update of followers_count; failed tells whether the statement returned
\* an error, which is logged only
FollowCountFollowers(p, failed) ==
    /\ p.op = "FollowUnfollowUser"
    /\ p.pc = "followers"
    /\ usersStats' = IF failed THEN usersStats
                     ELSE BumpStats(usersStats, p.dto.FollowingId,
                                    "followers_count", FollowDelta(p))
    /\ pending' = (pending \ {p}) \cup {[p EXCEPT !.pc = "followings"]}
    /\ UNCHANGED <<users, userRoles, follows, blogs, comments, likes, shares,
                   views, pinnedBlogs, issued, now, last, prev>>
    /\ UNCHANGED ledgerVars

\* the update of followings_count, then the response
FollowCountFollowings(p, failed) ==
    /\ p.op = "FollowUnfollowUser"
    /\ p.pc = "followings"
    /\ usersStats' = IF failed THEN usersStats
                     ELSE BumpStats(usersStats, p.dto.FollowerId,
                                    "followings_count", FollowDelta(p))
    /\ pending' = pending \ {p}
    /\ Respond(FollowAnswer(p, StatusCreated, p.found = NoFollow))
    /\ UNCHANGED <<users, userRoles, follows, blogs, comments, likes, shares,
                   views, pinnedBlogs, issued>>
    /\ UNCHANGED ledgerVars

NextFollowSteps ==
    \/ \E c \in Callers, dto \in FollowUnfollowDtos : FollowLookup(dto, c)
    \/ \E p \in pending : FollowRow(p)
    \/ \E p \in pending, failed \in BOOLEAN : FollowCountFollowers(p, failed)
    \/ \E p \in pending, failed \in BOOLEAN : FollowCountFollowings(p, failed)

SpecFollowSteps == Init /\ [][NextFollowSteps]_vars

\* C16: the step that inserts or deletes a Follow row also changes the
\* followers_count of the row's target and the followings_count of the row's
\* actor: no state, however reached, shows the one without the others.
C16_FollowAtomic ==
    [][\A f \in (follows \ follows') \cup (follows' \ follows) :
          /\ f.following_id \in DOMAIN usersStats
             => usersStats'[f.following_id].followers_count
                    # usersStats[f.following_id].followers_count
          /\ f.follower_id \in DOMAIN usersStats
             => usersStats'[f.follower_id].followings_count
                    # usersStats[f.follower_id].followings_count]_vars


\* ------------------------------------------------- transactions that fail
\* db.Transaction(fn) commits what fn wrote when fn returns nil and rolls it
\* back when fn returns an error.  A statement may return an error whatever
\* the rows are (connection lost, statement timeout, disk full).
DbState ==
    [blogs |-> blogs, usersStats |-> usersStats, comments |-> comments,
     likes |-> likes, shares |-> shares, pinnedBlogs |-> pinnedBlogs]

NoRollback(before, written) == written
\* what the tables hold after a transaction whose function returned an error
Rollback(before, written) == before

\* the tables after the first n statements of Delete that follow First(&blog)
DeleteStatements == 6
DeleteSteps(db, blogId, n) ==
    LET blog == db.blogs[blogId]
        s1 == IF n < 1 THEN db
              ELSE [db EXCEPT !.pinnedBlogs = {p \in @ : p.blog_id # blogId}]
        s2 == IF n < 2 THEN s1
              ELSE [s1 EXCEPT !.usersStats =
                        BumpStats(@, blog.user_id, "total_posts", -1)]
        s3 == IF n < 3 THEN s2
              ELSE [s2 EXCEPT !.comments =
                        Without(@, {c \in DOMAIN @ : @[c].ref_id = blogId})]
        s4 == IF n < 4 THEN s3
              ELSE [s3 EXCEPT !.likes = {l \in @ : l.ref_id # blogId}]
        s5 == IF n < 5 THEN s4
              ELSE [s4 EXCEPT !.shares = {x \in @ : x.ref_id # blogId}]
    IN  IF n < 6 THEN s5 ELSE [s5 EXCEPT !.blogs = Without(@, {blogId})]

\* BlogsService.Delete when its statement number failAt returns an error
DeleteFailing(blogId, currentUser, failAt) ==
    /\ blogId \in DOMAIN blogs
    /\ LET after == Rollback(DbState,
                             DeleteSteps(DbState, blogId, failAt - 1))
       IN
       /\ blogs' = after.blogs
       /\ usersStats' = after.usersStats
       /\ comments' = after.comments
       /\ likes' = after.likes
       /\ shares' = after.shares
       /\ pinnedBlogs' = after.pinnedBlogs
    /\ Record([op |-> "Delete", caller |-> currentUser.UserId,
               ref |-> blogId, status |-> StatusInternalServerError,
               author |-> blogs[blogId].user_id,
               related |-> RelatedRows(blogId),
               pre |-> IF blogs[blogId].user_id \in DOMAIN usersStats
                       THEN usersStats[blogs[blogId].user_id].total_posts
                       ELSE 0,
               failAt |-> failAt])
    /\ UNCHANGED <<users, userRoles, follows, views, issued>>
    /\ UNCHANGED ledgerVars


\* the tables after the first n statements of Create: the blog row, the
\* author's total_posts, the pinned_blogs row, the source's shares_count, the
\* shares row; the third is run for a pinned post that is no repost, the last
\* two for a repost
CreateStatements == 5
CreateSteps(db, dto, userId, blogId, n) ==
    LET repost == dto.RepostedFromBlogId # EmptyId
        s1 == IF n < 1 THEN db
              ELSE [db EXCEPT !.blogs =
                        With(@, blogId, NewBlog(userId, dto.Video))]
        s2 == IF n < 2 THEN s1
              ELSE [s1 EXCEPT !.usersStats =
                        BumpStats(@, userId, "total_posts", 1)]
        s3 == IF n < 3 \/ ~dto.Pinned \/ repost THEN s2
              ELSE [s2 EXCEPT !.pinnedBlogs = @ \cup
                        {[id |-> NewRowId(@), blog_id |-> blogId,
                          user_id |-> userId, start_date |-> now,
                          end_date |-> AddDate(now, dto.PinnedNumerOfDays)]}]
        s4 == IF n < 4 \/ ~repost THEN s3
              ELSE [s3 EXCEPT !.blogs = Shared(@, dto.RepostedFromBlogId)]
    IN  IF n < 5 \/ ~repost THEN s4
        ELSE [s4 EXCEPT !.shares = @ \cup
                  {[id |-> NewRowId(@), user_id |-> userId,
                    ref_id |-> dto.RepostedFromBlogId]}]

\* BlogsService.Create when its statement number failAt returns an error: the
\* response is 500 and carries no blog
CreateFailing(dto, currentUser, failAt) ==
    /\ failAt = 3 => (dto.Pinned /\ dto.RepostedFromBlogId = EmptyId)
    /\ failAt > 3 => dto.RepostedFromBlogId # EmptyId
    /\ LET blogId == <<"blog", issued.blog + 1>>
           after == Rollback(DbState,
                             CreateSteps(DbState, dto, currentUser.UserId,
                                         blogId, failAt - 1))
       IN
       /\ blogs' = after.blogs
       /\ usersStats' = after.usersStats
       /\ comments' = after.comments
       /\ likes' = after.likes
       /\ shares' = after.shares
       /\ pinnedBlogs' = after.pinnedBlogs
    /\ Record([op |-> "Create", caller |-> currentUser.UserId,
               ref |-> EmptyId, status |-> StatusInternalServerError,
               isReel |-> FALSE, dto |-> dto, failAt |-> failAt])
    /\ UNCHANGED <<users, userRoles, follows, views, issued>>
    /\ UNCHANGED ledgerVars

NextDeleteFaults ==
    \/ \E c \in Callers, dto \in CreateBlogDtos : Create(dto, c)
    \/ \E c \in Callers, b \in BlogRefs : LikeBlog(b, c)
    \/ \E c \in Callers, b \in BlogRefs : Delete(b, c)
    \/ \E c \in Callers, b \in BlogRefs,
          failAt \in 1..DeleteStatements : DeleteFailing(b, c, failAt)

SpecDeleteFaults == Init /\ [][NextDeleteFaults]_vars

NextCreateFaults ==
    \/ \E c \in Callers, dto \in CreateBlogDtos : Create(dto, c)
    \/ \E c \in Callers, dto \in CreateBlogDtos,
          failAt \in 1..CreateStatements : CreateFailing(dto, c, failAt)

SpecCreateFaults == Init /\ [][NextCreateFaults]_vars

\* C17: a Delete that fails at any of its statements leaves the blog, its
\* pinned row, its comments, likes and shares and the author's total_posts,
\* and every other row, as they were before the call.
C17_DeleteAllOrNothing ==
    [][(/\ last'.op = "Delete"
        /\ last'.status = StatusInternalServerError)
       => UNCHANGED dbVars]_vars
\* a Delete failed at its last statement, on a blog with a pinned row and a
\* like, after the statements before had removed them
C17_Witness ==
    /\ last.op = "Delete"
    /\ last.status = StatusInternalServerError
    /\ last.failAt = DeleteStatements
    /\ last.related.pinned > 0
    /\ last.related.likes > 0
    /\ last.ref \in DOMAIN blogs
    /\ RelatedRows(last.ref) = last.related


\* -------------------------------------------- comment properties, continued
\* C18: deleting a comment whose ref_id is a blog's id takes exactly 1 from
\* that blog's comments_count and changes the replies_count of no comment;
\* deleting one whose ref_id is no blog's id but a comment's takes exactly 1
\* from that comment's replies_count and changes the comments_count of no
\* blog.  The blogs are asked first, the comments only when no blog matches.
SameRepliesCounts(except) ==
    \A c \in (DOMAIN comments \cap DOMAIN comments') \ except :
        comments'[c].replies_count = comments[c].replies_count
SameCommentsCounts(except) ==
    /\ DOMAIN blogs' = DOMAIN blogs
    /\ \A b \in DOMAIN blogs \ except :
          blogs'[b].comments_count = blogs[b].comments_count
C18_DeleteCommentCounts ==
    [][(/\ last'.op = "DeleteComment"
        /\ last'.status = StatusNonAuthoritativeInformation)
       => LET parent == last'.parent IN
          IF parent \in DOMAIN blogs
          THEN /\ blogs'[parent].comments_count
                      = blogs[parent].comments_count - 1
               /\ SameCommentsCounts({parent})
               /\ SameRepliesCounts({})
          ELSE IF parent \in DOMAIN comments
          THEN /\ parent \in DOMAIN comments'
               /\ comments'[parent].replies_count
                      = comments[parent].replies_count - 1
               /\ SameRepliesCounts({parent})
               /\ SameCommentsCounts({})
          ELSE /\ SameRepliesCounts({})
               /\ SameCommentsCounts({})]_vars
\* a reply has just been deleted: its parent comment is still there, under a
\* blog that still counts that comment
C18_Witness ==
    /\ last.op = "DeleteComment"
    /\ last.status = StatusNonAuthoritativeInformation
    /\ last.parent \in DOMAIN comments
    /\ comments[last.parent].replies_count = 0
    /\ comments[last.parent].ref_id \in DOMAIN blogs
    /\ blogs[comments[last.parent].ref_id].comments_count = 1


\* C19: a Create that succeeds adds the blog row and exactly 1 to the author's
\* total_posts; for a repost it also adds exactly one Share row (author,
\* source blog) and exactly 1 to the source blog's shares_count, and without
\* a repost no Share row and no shares_count changes.  A Create that fails
\* changes no row at all.
C19_CreateCounts ==
    [][last'.op = "Create"
       => IF last'.status # StatusCreated THEN UNCHANGED dbVars
          ELSE LET author == last'.caller
                   source == last'.dto.RepostedFromBlogId
               IN
               /\ last'.ref \notin DOMAIN blogs
               /\ DOMAIN blogs' = DOMAIN blogs \cup {last'.ref}
               /\ blogs'[last'.ref].user_id = author
               /\ usersStats'[author].total_posts
                      = usersStats[author].total_posts + 1
               /\ \A u \in DOMAIN usersStats \ {author} :
                      usersStats'[u] = usersStats[u]
               /\ IF source = EmptyId
                  THEN /\ shares' = shares
                       /\ \A b \in DOMAIN blogs : blogs'[b] = blogs[b]
                  ELSE /\ \E x \in shares' \ shares :
                             /\ shares' = shares \cup {x}
                             /\ x.user_id = author
                             /\ x.ref_id = source
                       /\ \A b \in DOMAIN blogs :
                             blogs'[b] =
                                 IF b = source
                                 THEN [blogs[b] EXCEPT !.shares_count = @ + 1]
                                 ELSE blogs[b]]_vars
\* a blog that exists has just been reposted
C19_Witness ==
    /\ last.op = "Create"
    /\ last.status = StatusCreated
    /\ last.dto.RepostedFromBlogId \in DOMAIN blogs
    /\ blogs[last.dto.RepostedFromBlogId].shares_count = 1
    /\ usersStats[last.caller].total_posts >= 1
    /\ \E x \in shares : /\ x.user_id = last.caller
                         /\ x.ref_id = last.dto.RepostedFromBlogId


\* C20 as stated: a Create that succeeds with a payload marked pinned adds
\* exactly one pinned_blogs row for the new blog, from now to now + N days, and
\* one not marked pinned adds none.
PinnedRowsAdded(expected) ==
    LET rows == {p \in pinnedBlogs' : p.blog_id = last'.ref} IN
    /\ pinnedBlogs' = pinnedBlogs \cup rows
    /\ rows \cap pinnedBlogs = {}
    /\ IF expected
       THEN /\ Cardinality(rows) = 1
            /\ \A p \in rows :
                  /\ p.start_date = now
                  /\ p.end_date = now + last'.dto.PinnedNumerOfDays
       ELSE rows = {}
C20_PinnedCreatesRow ==
    [][(last'.op = "Create" /\ last'.status = StatusCreated)
       => PinnedRowsAdded(last'.dto.Pinned)]_vars
\* C20 as the code has it: the row is added for a payload marked pinned that
\* is no repost; a payload not marked pinned, and a repost, add none.
C20_PinnedUnlessRepost ==
    [][(last'.op = "Create" /\ last'.status = StatusCreated)
       => PinnedRowsAdded(/\ last'.dto.Pinned
                          /\ last'.dto.RepostedFromBlogId = EmptyId)]_vars
\* a pinned post that is no repost was created, and its row ends N days
\* after it starts
C20_Witness ==
    /\ last.op = "Create"
    /\ last.status = StatusCreated
    /\ last.dto.Pinned
    /\ last.dto.RepostedFromBlogId = EmptyId
    /\ \E p \in pinnedBlogs :
          /\ p.blog_id = last.ref
          /\ p.end_date = p.start_date + last.dto.PinnedNumerOfDays
          /\ p.end_date > p.start_date


\* ------------------------------------------------- fetches served together
\* FindOne's counter statement is UPDATE blogs SET views_count = views_count
\* + 1: the database computes the new value from the row as it is when the
\* statement runs, under the row's lock, not from what First(&blog) read.
ViewedFromRead(rows, blogId, read) ==
    IF blogId \in DOMAIN rows
    THEN [rows EXCEPT ![blogId].views_count = read.views_count + 1]
    ELSE rows
ViewedSince(rows, blogId, read) == Viewed(rows, blogId)

\* FindOne up to First(&blog)
FindOneBegin(blogId, currentUser) ==
    /\ Cardinality(views) + Cardinality(pending) < MaxViews
    /\ Cardinality(pending) < MaxPending
    /\ IF blogId \notin DOMAIN blogs
       THEN /\ Respond([op |-> "FindOne", caller |-> currentUser.UserId,
                        ref |-> blogId, status |-> StatusNotFound,
                        viewsCount |-> 0])
            /\ UNCHANGED pending
       ELSE /\ pending' = pending \cup
                   {[rid |-> NewRequestId, op |-> "FindOne",
                     caller |-> currentUser.UserId, ref |-> blogId,
                     found |-> blogs[blogId]]}
            /\ UNCHANGED <<now, last, prev>>
    /\ UNCHANGED dbVars

\* FindOne from the counter update to the commit and the response, which
\* carries the blog as First(&blog) read it
FindOneCommit(p) ==
    /\ p.op = "FindOne"
    /\ pending' = pending \ {p}
    /\ blogs' = ViewedSince(blogs, p.ref, p.found)
    /\ views' = views \cup
           {[id |-> NewRowId(views), ref_id |-> p.ref, user_id |-> p.caller]}
    /\ Respond([op |-> "FindOne", caller |-> p.caller, ref |-> p.ref,
                status |-> StatusOK, viewsCount |-> p.found.views_count])
    /\ UNCHANGED <<users, userRoles, usersStats, follows, comments, likes,
                   shares, pinnedBlogs, issued>>
    /\ UNCHANGED ledgerVars

NextViewRace ==
    \/ \E c \in Callers : Create(Post("", FALSE, EmptyId), c)
    \/ \E c \in Callers, b \in BlogRefs : FindOneBegin(b, c)
    \/ \E p \in pending : FindOneCommit(p)

SpecViewRace == Init /\ [][NextViewRace]_vars

\* C21: every fetch that succeeds, also one served while other fetches of the
\* same blog are, leaves views_count exactly 1 higher and exactly one more
\* View row for the blog: k fetches together add k to both.
C21_ViewsNotLost ==
    [][(now' # now /\ last'.op = "FindOne" /\ last'.status = StatusOK)
       => /\ blogs'[last'.ref].views_count = blogs[last'.ref].views_count + 1
          /\ Cardinality({v \in views' : v.ref_id = last'.ref})
                 = Cardinality({v \in views : v.ref_id = last'.ref}) + 1
          /\ blogs'[last'.ref].views_count
                 = Cardinality({v \in views' : v.ref_id = last'.ref})]_vars
\* two fetches of one blog overlapped: the one answered last read the count 0
\* and the stored count is 2, with two View rows
C21_Witness ==
    /\ last.op = "FindOne"
    /\ last.status = StatusOK
    /\ last.viewsCount = 0
    /\ blogs[last.ref].views_count = 2
    /\ Cardinality({v \in views : v.ref_id = last.ref}) = 2


\* ------------------------------------------- guard properties, continued
\* C22: the Admin guard decides on the rows of the database as they are when
\* the request arrives: the request that follows the removal of a user's
\* Admin role, with the token issued to that user before, is answered 403
\* (the user holding no SuperAdmin role), and the request that follows the
\* deletion of the user's row is answered 401.
C22_GuardReadsDatabase ==
    (/\ last.op = "Guard"
     /\ last.guard = "Admin"
     /\ prev.op \in {"RevokeRole", "DeleteUser"}
     /\ prev.status < 400
     /\ last.authorization = Bearer(JwtEncode(prev.ref)))
    => /\ prev.op = "DeleteUser"
          => (last.status = StatusUnauthorized /\ ~last.next)
       /\ (/\ prev.op = "RevokeRole"
           /\ prev.role = RoleNameAdmin
           /\ RoleNameSuperAdmin \notin userRoles[prev.ref])
          => (last.status = StatusForbidden /\ ~last.next)
\* the request that follows the removal of an Admin role was answered 403
C22_Witness ==
    /\ last.op = "Guard"
    /\ last.guard = "Admin"
    /\ prev.op = "RevokeRole"
    /\ prev.role = RoleNameAdmin
    /\ last.authorization = Bearer(JwtEncode(prev.ref))
    /\ last.status = StatusForbidden


\* ------------------------------------------- blog properties, continued
\* C23: a Delete of a blog by an authenticated user who is neither its author
\* nor an administrator is rejected and leaves the blog in place.
C23_OnlyAuthorDeletes ==
    (/\ last.op = "Delete"
     /\ last.author \notin {EmptyId, last.caller}
     /\ RolesOf(last.caller) \cap {RoleNameAdmin, RoleNameSuperAdmin} = {})
    => /\ last.status \in {StatusUnauthorized, StatusForbidden}
       /\ last.ref \in DOMAIN blogs


\* ------------------------------------------ users properties, continued
\* C24: every Follow row that a follow/unfollow call inserts or deletes has
\* the caller's user id as its follower_id.
C24_FollowerIsCaller ==
    [][last'.op = "FollowUnfollowUser"
       => \A f \in (follows \ follows') \cup (follows' \ follows) :
              f.follower_id = last'.caller]_vars


\* ----------------------------------------------------- counter properties
\* C25: no counter column is negative: likes_count, comments_count,
\* shares_count and views_count of every blog, replies_count and likes_count
\* of every comment, followers_count, followings_count, total_posts and
\* total_likes of every user.
C25_CountersNotNegative ==
    /\ \A b \in DOMAIN blogs :
          /\ blogs[b].likes_count >= 0
          /\ blogs[b].comments_count >= 0
          /\ blogs[b].shares_count >= 0
          /\ blogs[b].views_count >= 0
    /\ \A c \in DOMAIN comments :
          /\ comments[c].replies_count >= 0
          /\ comments[c].likes_count >= 0
    /\ \A u \in DOMAIN usersStats :
          /\ usersStats[u].followers_count >= 0
          /\ usersStats[u].followings_count >= 0
          /\ usersStats[u].total_posts >= 0
          /\ usersStats[u].total_likes >= 0


\* C26: a delete of a blog or of a comment makes no reference dangle: every
\* Comment, Like, Share and View row that is left after it and whose ref_id
\* named a blog or a comment before it still names one.
Resolved(refId, blogRows, commentRows) ==
    refId \in DOMAIN blogRows \cup DOMAIN commentRows
C26_NoDanglingAfterDelete ==
    [][(/\ last'.op \in {"Delete", "DeleteComment"}
        /\ last'.status = StatusNonAuthoritativeInformation)
       => /\ \A c \in DOMAIN comments' :
                Resolved(comments'[c].ref_id, blogs, comments)
                    => Resolved(comments'[c].ref_id, blogs', comments')
          /\ \A r \in likes' \cup shares' \cup views' :
                Resolved(r.ref_id, blogs, comments)
                    => Resolved(r.ref_id, blogs', comments')]_vars


\* C27: the likesCount a LikeBlog call returns is the blog's stored
\* likes_count right after the call, whether the call liked or unliked.
C27_ReturnedLikesCount ==
    (/\ last.op = "LikeBlog"
     /\ last.status = StatusAccepted
     /\ last.ref \in DOMAIN blogs)
    => last.likesCount = blogs[last.ref].likes_count


\* ------------------------------------------------------------------ routes
\* app.Use("/<prefix>/*", AuthenticatedGuard(db)) in the two RegisterRoutes
UseRoutes == {"blogs", "users", "following-blogs", "pinned-blogs", "comments"}

\* The routes RegisterRoutes registers, each path as its segments; every
\* handler but GetTokenByEmail starts with
\* ctx.Locals("user").(models.ICurrentUser).
Route(method, path, handler) ==
    [method |-> method, path |-> path, handler |-> handler,
     readsUser |-> handler # "GetTokenByEmail"]
Routes ==
    {Route("POST", <<"blogs">>, "CreateBlog"),
     Route("GET", <<"pinned-blogs">>, "FindPinnedBlogs"),
     Route("GET", <<"blogs", ":blogId">>, "FindBlogById"),
     Route("GET", <<"following-blogss">>, "FindFollowingBlogs"),
     Route("GET", <<"blogs">>, "FindAllBlogs"),
     Route("PUT", <<"blogs", ":blogId">>, "UpdateBlog"),
     Route("PUT", <<"blogs", ":blogId", "likes">>, "LikeBlog"),
     Route("DELETE", <<"blogs", ":blogId">>, "DeleteBlog"),
     Route("GET", <<"blogs", ":blogId", "follows", "likes">>,
           "FindLikesAndFollowers"),
     Route("POST", <<"blogs", ":blogId", "comments">>, "AddComment"),
     Route("GET", <<"blogs", ":blogId", "comments">>, "FindComments"),
     Route("DELETE", <<"comments", ":commentId">>, "DeleteComment"),
     Route("PUT", <<"comments", ":commentId">>, "UpdateComment"),
     Route("PUT", <<"comments", ":commentId", "likes">>, "LikeComment"),
     Route("GET", <<"comments", ":commentId", "likes">>, "FindCommentLikes"),
     Route("GET", <<"comments", ":commentId", "replies">>, "FindReplies"),
     Route("POST", <<"comments", ":commentId", "replies">>, "AddReply"),
     Route("GET", <<"users", ":userId", "blogs">>, "FindUserBlogs"),
     Route("POST", <<"users">>, "CreateUser"),
     Route("GET", <<"users">>, "FindAllUsers"),
     Route("GET", <<"users", ":userId">>, "FindUserById"),
     Route("PUT", <<"users", ":userId">>, "UpdateUser"),
     Route("DELETE", <<"users", ":userId">>, "DeleteUser"),
     Route("POST", <<"users", "follows">>, "FollowUnfollowUser"),
     Route("GET", <<"users", ":userId", "unfollowings">>,
           "FindUsersNotFollowing"),
     Route("GET", <<"users", ":userId", "followers">>, "FindUserFollowers"),
     Route("GET", <<"users", ":userId", "followings">>, "FindUserFollowings"),
     Route("POST", <<"auth", "token">>, "GetTokenByEmail")}

\* "/<prefix>/*" matches "/<prefix>" itself and every path below it: the
\* first segment has to be the prefix, letter for letter
UseMatches(prefix, path) == path # <<>> /\ path[1] = prefix

\* A request on a registered route: the guards whose prefix matches run
\* first, then the handler.  A handler that reads the current user when no
\* guard has stored one panics on the type assertion.
RoutedRequest(route, authorization) ==
    LET guarded == \E prefix \in UseRoutes : UseMatches(prefix, route.path)
        r == IF guarded THEN AuthenticatedGuard(authorization)
             ELSE [next |-> TRUE, status |-> StatusOK, user |-> NoUser]
        panicked == r.next /\ route.readsUser /\ ~r.user.set
    IN
    /\ last' = [op |-> "Route", handler |-> route.handler,
                method |-> route.method, path |-> route.path,
                readsUser |-> route.readsUser,
                authorization |-> authorization, next |-> r.next,
                status |-> IF panicked THEN 0 ELSE r.status,
                user |-> r.user, panicked |-> panicked]
    /\ prev' = NoCall
    /\ UNCHANGED <<dbVars, now, pending>>

NextRoutes ==
    \E route \in Routes, h \in Headers : RoutedRequest(route, h)

SpecRoutes == Init /\ [][NextRoutes]_vars

\* C28: on every registered route whose handler reads the current user, the
\* handler is reached only after a guard has stored one.
C28_UserSetBeforeHandler ==
    (last.op = "Route" /\ last.readsUser /\ last.next)
    => (last.user.set /\ ~last.panicked)


\* -------------------------------------------------------- filtered lists
\* Pluck("following_id") over the follows rows WHERE follower_id = userId OR
\* following_id = userId
FollowIdsAround(userId) ==
    {f.following_id : f \in {g \in follows : \/ g.follower_id = userId
                                             \/ g.following_id = userId}}

\* BlogsService.FindFollowingBlogs behind BlogsController.FindFollowingBlogs:
\* totalItems is Count over the whole blogs table, data is the blogs whose
\* user_id is among the plucked ids or the caller's, newest first.  A limit of
\* 0 divides by zero as in FindAll.
FindFollowingBlogs(currentUser, page, limit) ==
    LET totalItems == Cardinality(DOMAIN blogs)
        authors == FollowIdsAround(currentUser.UserId)
                       \cup {currentUser.UserId}
        feed == {b \in DOMAIN blogs : blogs[b].user_id \in authors}
    IN
    /\ IF limit = 0
       THEN Record([Listed("FindFollowingBlogs", currentUser, EmptyId, page,
                           limit, <<>>,
                           [CurrentPage |-> page, ItemsPerPage |-> limit,
                            TotalItems |-> totalItems, TotalPages |-> 0,
                            HasNextPage |-> FALSE,
                            HasPreviousPage |-> FALSE])
                       EXCEPT !.status = 0, !.panicked = TRUE])
       ELSE Record(Listed("FindFollowingBlogs", currentUser, EmptyId, page,
                          limit,
                          LimitOffset(NewestFirst(feed), limit,
                                      (page - 1) * limit),
                          PaginationMetadata(page, limit, totalItems)))
    /\ UNCHANGED dbVars

\* UsersService.FindUsersNotFollowing behind
\* UsersController.FindUsersNotFollowing (no search term): totalItems is Count
\* over the whole users table, data is the users whose id is not among the
\* following ids of userId, ORDER BY RANDOM()
FindUsersNotFollowing(userId, page, limit, currentUser) ==
    LET p == ClampPage(page)
        l == ClampLimit(limit)
        ids == {f.following_id : f \in {g \in follows :
                                           g.follower_id = userId}}
    IN
    /\ \E order \in Orders(users \ ids) :
          Record(Listed("FindUsersNotFollowing", currentUser, userId, page,
                        limit, LimitOffset(order, l, (p - 1) * l),
                        PaginationMetadata(p, l, Cardinality(users))))
    /\ UNCHANGED dbVars

\* the query parameters the feeds are called with: pages from the first one,
\* and the limits 0 and 1
FeedPages == 1 .. MaxPage
FeedLimits == {0, 1}

NextFeeds ==
    \/ \E c \in Callers : Create(Post("", FALSE, EmptyId), c)
    \/ \E c \in Callers, dto \in FollowUnfollowDtos :
          FollowUnfollowUser(dto, c)
    \/ \E c \in Callers, page \in FeedPages, limit \in FeedLimits :
          FindFollowingBlogs(c, page, limit)
    \/ \E c \in Callers, u \in UserIds, page \in FeedPages,
          limit \in FeedLimits :
          FindUsersNotFollowing(u, page, limit, c)

SpecFeeds == Init /\ [][NextFeeds]_vars

\* C29: the totalItems of the following feed is the number of blogs written
\* by the caller or by a user the caller follows, and the totalItems of the
\* not-following list is the number of users the given user does not follow.
C29_TotalItemsMatchFilter ==
    /\ (last.op = "FindFollowingBlogs" /\ ~last.panicked)
       => last.meta.TotalItems =
              Cardinality({b \in DOMAIN blogs :
                  \/ blogs[b].user_id = last.caller
                  \/ \E f \in follows :
                        /\ f.follower_id = last.caller
                        /\ f.following_id = blogs[b].user_id})
    /\ last.op = "FindUsersNotFollowing"
       => last.meta.TotalItems =
              Cardinality({u \in users :
                  ~\E f \in follows : /\ f.follower_id = last.ref
                                      /\ f.following_id = u})


\* ------------------------------------------- subscriptions (users service)
StatusBadRequest == 400
MonthlyCost == 50
YearlyCost == 10 * MonthlyCost
SubscriptionPlans == {"monthly", "yearly", "two_months_discount"}

\* A NUMERIC(15,2) column reaches the service as text: <<whole, hundredths>>.
\* parseFloat reads it as an amount, kept here in hundredths; toFixed(2)
\* writes an amount back as text.
ParseFloat(text) == text[1] * 100 + text[2]
ToFixed2(amount) == <<amount \div 100, amount % 100>>

\* the switch on plan: cost of a plan, as an amount
Cost(plan) == IF plan = "monthly" THEN MonthlyCost * 100
              ELSE YearlyCost * 100

\* A wallet starts with at most MaxFunds monthly payments, one hundredth less
\* than one payment, or a yearly and a monthly payment.
MaxFunds == 2
Balances ==
    {ToFixed2(m * Cost("monthly")) : m \in 0 .. MaxFunds}
        \cup {ToFixed2(Cost("monthly") - 1),
              ToFixed2(Cost("yearly") + Cost("monthly"))}

Wallet(userId, balance) ==
    [wallet_id |-> <<"wallet", userId[2]>>, user_id |-> userId,
     balance |-> balance]

\* The accounts of Init; the first has a business and a wallet, the newest
\* may lack either; nobody has subscribed.
InitWallets ==
    /\ InitAccounts
    /\ \E balance \in Balances, others \in SUBSET (UserIds \ {<<"user", 1>>}) :
          wallets = [u \in {<<"user", 1>>} \cup others |->
                        Wallet(u, IF u = <<"user", 1>> THEN balance
                                  ELSE ToFixed2(Cost("monthly")))]
    /\ \E others \in SUBSET (UserIds \ {<<"user", 1>>}) :
          businesses = {<<"user", 1>>} \cup others
    /\ transactions = {}
    /\ subscriptions = <<>>

\* subscribeToPlan up to the balance check: the transaction has read the
\* user, the wallet and the business, and throws or goes on with the wallet
\* row it read.  status is the exception thrown inside the transaction.
SubscribeRead(userId, plan, currentUser) ==
    LET thrown(status) ==
            /\ Respond([op |-> "subscribeToPlan",
                        caller |-> currentUser.UserId, ref |-> userId,
                        plan |-> plan, status |-> status,
                        read |-> IF userId \in DOMAIN wallets
                                 THEN wallets[userId].balance
                                 ELSE ToFixed2(0)])
            /\ pending' = pending
    IN
    /\ currentUser.IsAuthenticated
    /\ Cardinality(pending) < MaxPending
    /\ IF userId \notin users THEN thrown(StatusNotFound)
       ELSE IF userId \notin DOMAIN wallets THEN thrown(StatusNotFound)
       ELSE IF userId \notin businesses THEN thrown(StatusNotFound)
       ELSE IF plan \notin {"monthly", "yearly"} THEN thrown(StatusBadRequest)
       ELSE IF ParseFloat(wallets[userId].balance) < Cost(plan)
       THEN thrown(StatusBadRequest)
       ELSE /\ pending' = pending \cup
                   {[rid |-> NewRequestId, op |-> "subscribeToPlan",
                     caller |-> currentUser.UserId, ref |-> userId,
                     plan |-> plan, userWallet |-> wallets[userId]]}
            /\ UNCHANGED <<now, last, prev>>
    /\ UNCHANGED dbVars

\* subscribeToPlan from the UPDATE of the wallet to the commit: the new
\* balance is computed from the row read earlier, the payment is inserted
\* and the subscription is updated or inserted.  The UPDATE locks the wallet
\* row until the commit, so these statements run without another
\* subscription of the same user in between.
SubscribeWrite(p) ==
    LET cost == Cost(p.plan)
        newBalance == ParseFloat(p.userWallet.balance) - cost
        owners == {u \in DOMAIN wallets :
                      wallets[u].wallet_id = p.userWallet.wallet_id}
    IN
    /\ p.op = "subscribeToPlan"
    /\ pending' = pending \ {p}
    /\ wallets' = [u \in DOMAIN wallets |->
                      IF u \in owners
                      THEN [wallets[u] EXCEPT !.balance = ToFixed2(newBalance)]
                      ELSE wallets[u]]
    /\ transactions' = transactions \cup
           {[transaction_id |-> Cardinality(transactions) + 1,
             sender_wallet_id |-> p.userWallet.wallet_id,
             recipient_wallet_id |-> p.userWallet.wallet_id,
             amount |-> ToFixed2(cost), type |-> "payment",
             status |-> "completed"]}
    /\ subscriptions' = With(subscriptions, p.ref,
                             [plan |-> p.plan, status |-> "active"])
    /\ Respond([op |-> "subscribeToPlan", caller |-> p.caller,
                ref |-> p.ref, plan |-> p.plan, status |-> StatusOK,
                read |-> p.userWallet.balance])
    /\ UNCHANGED <<users, userRoles, usersStats, follows, blogs, comments,
                   likes, shares, views, pinnedBlogs, issued, businesses>>

NextWallets ==
    \/ \E c \in Callers, u \in UserIds \cup {<<"user", MaxUsers + 1>>},
          plan \in SubscriptionPlans : SubscribeRead(u, plan, c)
    \/ \E p \in pending : SubscribeWrite(p)

SpecWallets == InitWallets /\ [][NextWallets]_vars

RECURSIVE Paid(_)
\* the sum of the amounts of a set of transactions
Paid(rows) ==
    IF rows = {} THEN 0
    ELSE LET r == CHOOSE x \in rows : TRUE
         IN ParseFloat(r.amount) + Paid(rows \ {r})

Payments(walletId) ==
    {t \in transactions : /\ t.sender_wallet_id = walletId
                          /\ t.type = "payment"}

\* C30: however subscribeToPlan calls on a user interleave, the balance of
\* the wallet is never negative and every step keeps balance plus recorded
\* payments what it was (so the balance is the initial balance minus the
\* payments); a call that finds the balance below the cost of the plan is
\* rejected and changes nothing.
C30_BalanceMatchesPayments ==
    [][/\ \A u \in DOMAIN wallets :
             /\ ParseFloat(wallets'[u].balance) >= 0
             /\ ParseFloat(wallets'[u].balance)
                    + Paid({t \in transactions' :
                               /\ t.sender_wallet_id = wallets[u].wallet_id
                               /\ t.type = "payment"})
                = ParseFloat(wallets[u].balance)
                      + Paid(Payments(wallets[u].wallet_id))
       /\ (/\ now' # now
           /\ last'.op = "subscribeToPlan"
           /\ last'.ref \in DOMAIN wallets
           /\ last'.plan \in {"monthly", "yearly"}
           /\ ParseFloat(wallets[last'.ref].balance) < Cost(last'.plan))
          => /\ last'.status >= 400
             /\ UNCHANGED dbVars]_vars


====
